---------------------------- MODULE Spec2Model ----------------------------
(***************************************************************************)
(* A model of the multi-tools codebase-analysis agent                      *)
(* (src/multi_tools_agent.py): the tool registry, the HTTP handlers that   *)
(* dispatch through it, the intent router and the analysis tools.          *)
(*                                                                         *)
(* Python str values are modelled as tuples of one-character strings, so   *)
(* that substring tests, prefixes, suffixes, strip() and lower() are       *)
(* computed character by character as the interpreter computes them.       *)
(***************************************************************************)
EXTENDS Integers, Sequences, FiniteSets, TLC

VARIABLES
    tools,                 \* ToolRegistry.tools: name -> callable
    tool_descriptions,     \* ToolRegistry.tool_descriptions: name -> descriptor
    regLog,                \* history: the register_tool calls made, in order
    calls,                 \* history: the callables the last operation invoked, in
                           \* order, each with its arguments and what it produced
    current_project_path,  \* module global current_project_path
    project_files,         \* module global project_files
    tmpCount,              \* number of temporary directories created by mkdtemp
    reply,                 \* what the last operation gave its caller: a return
                           \* value, a raised exception or an HTTP response
    lastOp,                \* history: the operation of the last step and its inputs
    question,              \* the question text the client sends to the agent
    project,               \* the project directory the analysis tools read
    analysis_data,         \* the tool results a direct call of the fallback
                           \* answer is given
    AI_SERVICE,            \* module global AI_SERVICE
    OPENAI_API_KEY,        \* module global OPENAI_API_KEY
    ANTHROPIC_API_KEY,     \* module global ANTHROPIC_API_KEY
    pending                \* the agent request in progress: its tools, the next
                           \* one to run, the results and the calls so far

vars == <<tools, tool_descriptions, regLog, calls, current_project_path,
          project_files, tmpCount, reply, lastOp, question, project,
          analysis_data, AI_SERVICE, OPENAI_API_KEY, ANTHROPIC_API_KEY, pending>>

-----------------------------------------------------------------------------
(* Bounds of the model                                                     *)

MaxRegs == 2        \* register_tool calls made after module import
MaxClones == 1      \* temporary directories created in one behaviour

-----------------------------------------------------------------------------
(* Python str operations, on tuples of characters                          *)

Min(a, b) == IF a < b THEN a ELSE b

Max(a, b) == IF a < b THEN b ELSE a

UpperChars == {"A","B","C","D","E","F","G","H","I","J","K","L","M",
               "N","O","P","Q","R","S","T","U","V","W","X","Y","Z"}

LowerOf == [c \in UpperChars |->
              CASE c = "A" -> "a" [] c = "B" -> "b" [] c = "C" -> "c" [] c = "D" -> "d"
                [] c = "E" -> "e" [] c = "F" -> "f" [] c = "G" -> "g" [] c = "H" -> "h"
                [] c = "I" -> "i" [] c = "J" -> "j" [] c = "K" -> "k" [] c = "L" -> "l"
                [] c = "M" -> "m" [] c = "N" -> "n" [] c = "O" -> "o" [] c = "P" -> "p"
                [] c = "Q" -> "q" [] c = "R" -> "r" [] c = "S" -> "s" [] c = "T" -> "t"
                [] c = "U" -> "u" [] c = "V" -> "v" [] c = "W" -> "w" [] c = "X" -> "x"
                [] c = "Y" -> "y" [] c = "Z" -> "z"]

\* str.lower() of one character
LowerChar(c) == IF c \in UpperChars THEN LowerOf[c] ELSE c

\* str.lower()
Lower(s) == [i \in 1..Len(s) |-> LowerChar(s[i])]

\* the characters str.strip() removes and the regex class \s matches
IsSpace(c) == c \in {" ", "\t", "\n", "\r", "\f"}

\* s[i-1:i-1+len(w)] == w, i a 1-based position
OccursAt(w, s, i) ==
    /\ i >= 1
    /\ i + Len(w) - 1 <= Len(s)
    /\ \A k \in 1..Len(w) : s[i + k - 1] = w[k]

\* the Python test  w in s
Contains(w, s) == \E i \in 1..(Len(s) - Len(w) + 1) : OccursAt(w, s, i)

\* s.startswith(w)
StartsWith(s, w) == OccursAt(w, s, 1)

\* s.endswith(w)
EndsWith(s, w) == Len(w) <= Len(s) /\ OccursAt(w, s, Len(s) - Len(w) + 1)

\* s.strip()
Strip(s) ==
    LET keep == {i \in 1..Len(s) : ~IsSpace(s[i])}
    IN  IF keep = {} THEN <<>>
        ELSE LET lo == CHOOSE i \in keep : \A j \in keep : i <= j
                 hi == CHOOSE i \in keep : \A j \in keep : j <= i
             IN  SubSeq(s, lo, hi)

\* s1 + s2 + ... for a sequence of strings
RECURSIVE Concat(_)
Concat(ss) == IF ss = <<>> THEN <<>> ELSE Head(ss) \o Concat(Tail(ss))

\* sum of a sequence of integers
RECURSIVE SumSeq(_)
SumSeq(ns) == IF ns = <<>> THEN 0 ELSE Head(ns) + SumSeq(Tail(ns))

\* the number of elements of a set of positions or of a sequence that satisfy a
\* test is written with Cardinality; the largest and the smallest of a set
MaxOf(S) == CHOOSE x \in S : \A y \in S : y <= x

MinOf(S) == CHOOSE x \in S : \A y \in S : x <= y

\* s.count('\n') for the slice s[:n]
NewlinesBefore(s, n) == Cardinality({j \in 1..Min(n, Len(s)) : s[j] = "\n"})

\* s.split('\n'), from position from on
RECURSIVE SplitFrom(_, _)
SplitFrom(s, from) ==
    LET nl == {j \in from..Len(s) : s[j] = "\n"}
    IN  IF nl = {} THEN <<SubSeq(s, from, Len(s))>>
        ELSE <<SubSeq(s, from, MinOf(nl) - 1)>> \o SplitFrom(s, MinOf(nl) + 1)

\* s.split('\n')
SplitLines(s) == SplitFrom(s, 1)

\* f.readlines(): the lines of s, each with its line end, no empty last line
RECURSIVE ReadLinesFrom(_, _)
ReadLinesFrom(s, from) ==
    LET nl == {j \in from..Len(s) : s[j] = "\n"}
    IN  IF from > Len(s) THEN <<>>
        ELSE IF nl = {} THEN <<SubSeq(s, from, Len(s))>>
        ELSE <<SubSeq(s, from, MinOf(nl))>> \o ReadLinesFrom(s, MinOf(nl) + 1)

ReadLines(s) == ReadLinesFrom(s, 1)

-----------------------------------------------------------------------------
(* Regular expressions of module re, as far as the patterns of the tools   *)
(* use them. A pattern is a sequence of alternatives, an alternative a     *)
(* sequence of atoms: a literal, or one, an optional, zero-or-more or      *)
(* one-or-more characters of a class. In every pattern of the tools the    *)
(* backtracking matcher ends a match at the largest end an alternative     *)
(* allows, and at most one alternative matches at a position.              *)

Digits == {"0","1","2","3","4","5","6","7","8","9"}

LowerChars == {LowerOf[c] : c \in UpperChars}

\* the class of one character: \s, \w, ., ["\'], [^"\'], [_-], [:\s]
InClass(class, c) ==
    CASE class = "space" -> IsSpace(c)
      [] class = "word" -> c \in UpperChars \cup LowerChars \cup Digits \cup {"_"}
      [] class = "any" -> c # "\n"
      [] class = "quote" -> c \in {"\"", "'"}
      [] class = "notquote" -> c \notin {"\"", "'"}
      [] class = "underdash" -> c \in {"_", "-"}
      [] class = "colonspace" -> c = ":" \/ IsSpace(c)

Lit(w) == [k |-> "lit", s |-> w, c |-> "any"]

One(class) == [k |-> "one", s |-> <<>>, c |-> class]

Opt(class) == [k |-> "opt", s |-> <<>>, c |-> class]

Star(class) == [k |-> "star", s |-> <<>>, c |-> class]

Plus(class) == [k |-> "plus", s |-> <<>>, c |-> class]

\* the literal w occurs in s at position i; ic: re.IGNORECASE
LitAt(w, s, i, ic) ==
    /\ i + Len(w) - 1 <= Len(s)
    /\ \A k \in 1..Len(w) :
          IF ic THEN LowerChar(s[i + k - 1]) = LowerChar(w[k]) ELSE s[i + k - 1] = w[k]

\* the number of characters of class that follow each other in s from i on
RunLength(class, s, i) ==
    LET stop == {j \in i..Len(s) : ~InClass(class, s[j])}
    IN  IF stop = {} THEN Len(s) - i + 1 ELSE MinOf(stop) - i

\* the positions after the matches of the atoms at position i of s
RECURSIVE Ends(_, _, _, _)
Ends(atoms, s, i, ic) ==
    IF atoms = <<>> THEN {i}
    ELSE LET a == Head(atoms)
             rest == Tail(atoms)
         IN  CASE a.k = "lit" ->
                    IF LitAt(a.s, s, i, ic) THEN Ends(rest, s, i + Len(a.s), ic) ELSE {}
               [] a.k = "one" ->
                    IF i <= Len(s) /\ InClass(a.c, s[i])
                    THEN Ends(rest, s, i + 1, ic) ELSE {}
               [] a.k = "opt" ->
                    Ends(rest, s, i, ic)
                    \cup (IF i <= Len(s) /\ InClass(a.c, s[i])
                          THEN Ends(rest, s, i + 1, ic) ELSE {})
               [] a.k \in {"star", "plus"} ->
                    UNION {Ends(rest, s, i + n, ic) :
                              n \in (IF a.k = "star" THEN 0 ELSE 1)..RunLength(a.c, s, i)}

\* the positions after the matches of pattern pat at position i of s
EndsAt(pat, s, i) ==
    IF pat.multiline_start /\ i > 1 /\ s[i - 1] # "\n" THEN {}
    ELSE UNION {Ends(pat.alternatives[j], s, i, pat.ignorecase) :
                   j \in 1..Len(pat.alternatives)}

\* the matches re.finditer yields among the positions starts where the
\* pattern matches, from position pos on: leftmost first, not overlapping; a
\* match is [start, stop): start its first position, stop the position after
\* its last
RECURSIVE PickMatches(_, _, _, _)
PickMatches(pat, s, starts, pos) ==
    LET left == {i \in starts : i >= pos}
    IN  IF left = {} THEN <<>>
        ELSE LET start == MinOf(left)
                 stop == MaxOf(EndsAt(pat, s, start))
             IN  <<[start |-> start, stop |-> stop]>> \o PickMatches(pat, s, starts, stop)

\* re.finditer(pat, s)
FindIter(pat, s) ==
    PickMatches(pat, s, {i \in 1..Len(s) : EndsAt(pat, s, i) # {}}, 1)

\* the pattern with the given alternatives; ic: re.IGNORECASE; ml: the pattern
\* begins with ^ under re.MULTILINE
Pattern(alternatives, ic, ml) ==
    [alternatives |-> alternatives, ignorecase |-> ic, multiline_start |-> ml]

-----------------------------------------------------------------------------
(* Tool registry (class ToolRegistry) and the callables it holds           *)

\* the six analysis tools registered at import, in registration order
AnalyzerNames == <<"analyze_dependencies", "analyze_code_metrics",
                   "find_security_issues", "analyze_git_history",
                   "find_todos_and_fixmes", "generate_architecture_summary">>

\* tool names looked up: one registered at import, one registered later or
\* never, one never registered
LookupNames == {"analyze_dependencies", "custom_tool", "missing_tool"}

NoPath == <<"None", 0>>

LocalPath == <<"./my_project", 0>>

TempDir(n) == <<"codebase_qa_", n>>

\* a dict with no keys
EmptyDict == <<>>

PathParams == [k \in {"project_path"} |-> "string"]

\* the descriptor register_tool stores: `parameters or {}` turns None (and an
\* empty dict) into {}
Descriptor(description, parameters, requires_api_key) ==
    [description |-> description,
     parameters |-> IF parameters.given /\ parameters.dict # EmptyDict
                    THEN parameters.dict ELSE EmptyDict,
     requires_api_key |-> requires_api_key]

\* the dict d with d[k] = v
DictPut(d, k, v) == [x \in DOMAIN d \cup {k} |-> IF x = k THEN v ELSE d[x]]

\* what calling func(**kwargs) produces: argument binding fails with TypeError
\* unless the keywords are exactly project_path; then the body runs and either
\* returns its result or raises (env tells which for a body that can fail)
CallableOutcome(func, kwargs, env) ==
    IF DOMAIN kwargs # {"project_path"}
    THEN [kind |-> "raise", type |-> "TypeError", msg |-> <<"bad arguments", func>>]
    ELSE IF func = "custom_raise" \/ (func # "custom_ok" /\ env = "error")
    THEN [kind |-> "raise", type |-> "RuntimeError", msg |-> <<"failed", func>>]
    ELSE [kind |-> "return", value |-> <<func, kwargs["project_path"]>>]

NotFoundError(name) ==
    [kind |-> "raise", type |-> "ValueError", msg |-> <<"Tool not found", name>>]

\* the register_tool calls the module makes at import
ImportRegistrations ==
    [i \in 1..Len(AnalyzerNames) |->
        [name |-> AnalyzerNames[i], func |-> AnalyzerNames[i],
         description |-> AnalyzerNames[i],
         parameters |-> [given |-> TRUE, dict |-> PathParams],
         requires_api_key |-> FALSE]]

\* ToolRegistry.__init__
EmptyRegistry == [tools |-> <<>>, tool_descriptions |-> <<>>]

\* register_tool that keeps the descriptor of a name already registered
RegistryPutKeepsDescriptor(reg, r) ==
    [tools |-> DictPut(reg.tools, r.name, r.func),
     tool_descriptions |->
        IF r.name \in DOMAIN reg.tool_descriptions THEN reg.tool_descriptions
        ELSE DictPut(reg.tool_descriptions, r.name,
                     Descriptor(r.description, r.parameters, r.requires_api_key))]

\* ToolRegistry.register_tool on the registry value reg, r the call's arguments
RegistryPut(reg, r) ==
    [tools |-> DictPut(reg.tools, r.name, r.func),
     tool_descriptions |->
        DictPut(reg.tool_descriptions, r.name,
                Descriptor(r.description, r.parameters, r.requires_api_key))]

\* the registry after the register_tool calls of log, made in order
RECURSIVE RegistryAfter(_)
RegistryAfter(log) ==
    IF log = <<>> THEN EmptyRegistry
    ELSE RegistryPut(RegistryAfter(SubSeq(log, 1, Len(log) - 1)), log[Len(log)])

\* ToolRegistry.list_tools
ListToolsOf(reg) == reg.tool_descriptions

\* execute_tool that answers None for a name it does not hold
RegistryExecuteNoneForUnknown(reg, name, kwargs, env) ==
    IF name \notin DOMAIN reg.tools
    THEN [out |-> [kind |-> "return", value |-> <<"None">>], invoked |-> <<>>]
    ELSE LET produced == CallableOutcome(reg.tools[name], kwargs, env)
         IN  [out |-> produced,
              invoked |-> <<[func |-> reg.tools[name], kwargs |-> kwargs,
                             produced |-> produced]>>]

\* execute_tool that swallows the exception of the callable and answers None
RegistryExecuteSwallows(reg, name, kwargs, env) ==
    IF name \notin DOMAIN reg.tools
    THEN [out |-> NotFoundError(name), invoked |-> <<>>]
    ELSE LET produced == CallableOutcome(reg.tools[name], kwargs, env)
         IN  [out |-> IF produced.kind = "raise"
                      THEN [kind |-> "return", value |-> <<"None">>]
                      ELSE produced,
              invoked |-> <<[func |-> reg.tools[name], kwargs |-> kwargs,
                             produced |-> produced]>>]

\* ToolRegistry.execute_tool(name, **kwargs): what its caller gets (out) and the
\* callables it invoked, each with what it produced (invoked)
RegistryExecute(reg, name, kwargs, env) ==
    IF name \notin DOMAIN reg.tools
    THEN [out |-> NotFoundError(name), invoked |-> <<>>]
    ELSE LET produced == CallableOutcome(reg.tools[name], kwargs, env)
         IN  [out |-> produced,
              invoked |-> <<[func |-> reg.tools[name], kwargs |-> kwargs,
                             produced |-> produced]>>]

Registry == [tools |-> tools, tool_descriptions |-> tool_descriptions]

-----------------------------------------------------------------------------
(* State after import of the module                                        *)

NoOutcome == [kind |-> "none"]

\* no agent request is in progress
Idle == [active |-> FALSE]

InitRegistry ==
    /\ tools = RegistryAfter(ImportRegistrations).tools
    /\ tool_descriptions = RegistryAfter(ImportRegistrations).tool_descriptions
    /\ regLog = ImportRegistrations
    /\ calls = <<>>

InitGlobals ==
    /\ current_project_path = NoPath
    /\ project_files = <<>>
    /\ tmpCount = 0
    /\ reply = NoOutcome
    /\ lastOp = [op |-> "import"]
    /\ AI_SERVICE = "openai"
    /\ OPENAI_API_KEY = "None"
    /\ ANTHROPIC_API_KEY = "None"
    /\ pending = Idle

InitInputs ==
    /\ question = <<>>
    /\ project = <<>>
    /\ analysis_data = EmptyDict

Init == InitRegistry /\ InitGlobals /\ InitInputs

registryVars == <<tools, tool_descriptions, regLog>>

inputVars == <<question, project, analysis_data>>

aiVars == <<AI_SERVICE, OPENAI_API_KEY, ANTHROPIC_API_KEY>>

-----------------------------------------------------------------------------
(* Registry operations and the HTTP handlers that use the registry         *)

\* the register_tool calls made after import: new names and a name of the import
\* registrations, with parameters None, {} and a non-empty dict
LateRegistrations ==
    {[name |-> "custom_tool", func |-> "custom_ok",
      description |-> "first description",
      parameters |-> [given |-> FALSE, dict |-> EmptyDict],
      requires_api_key |-> FALSE],
     [name |-> "custom_tool", func |-> "custom_raise",
      description |-> "second description",
      parameters |-> [given |-> TRUE, dict |-> PathParams],
      requires_api_key |-> TRUE],
     [name |-> "analyze_dependencies", func |-> "custom_ok",
      description |-> "second description",
      parameters |-> [given |-> TRUE, dict |-> EmptyDict],
      requires_api_key |-> FALSE],
     [name |-> "analyze_dependencies", func |-> "analyze_code_metrics",
      description |-> "first description",
      parameters |-> [given |-> TRUE, dict |-> PathParams],
      requires_api_key |-> FALSE]}

\* tool_registry.register_tool(name, func, description, parameters, requires_api_key)
RegisterTool(name, func, description, parameters, requires_api_key) ==
    LET r == [name |-> name, func |-> func, description |-> description,
              parameters |-> parameters, requires_api_key |-> requires_api_key]
        reg == RegistryPut(Registry, r)
    IN  /\ Len(regLog) < Len(ImportRegistrations) + MaxRegs
        /\ tools' = reg.tools
        /\ tool_descriptions' = reg.tool_descriptions
        /\ regLog' = Append(regLog, r)
        /\ lastOp' = [op |-> "register_tool", name |-> name]
        /\ reply' = [kind |-> "return", value |-> <<"None">>]
        /\ calls' = <<>>
        /\ UNCHANGED <<current_project_path, project_files, tmpCount, inputVars, aiVars, pending>>

\* tool_registry.execute_tool(name, **kwargs), called directly
ExecuteTool(name, kwargs, env) ==
    LET r == RegistryExecute(Registry, name, kwargs, env)
    IN  /\ calls' = r.invoked
        /\ reply' = r.out
        /\ lastOp' = [op |-> "execute_tool", name |-> name, kwargs |-> kwargs]
        /\ UNCHANGED <<registryVars, current_project_path, project_files,
                       tmpCount, inputVars, aiVars, pending>>

\* GET /api/tools/list
ListTools ==
    /\ reply' = [status |-> 200, success |-> TRUE, tools |-> ListToolsOf(Registry)]
    /\ lastOp' = [op |-> "list_tools"]
    /\ calls' = <<>>
    /\ UNCHANGED <<registryVars, current_project_path, project_files, tmpCount,
                   inputVars, aiVars, pending>>

ErrorResponse(status, message) ==
    [status |-> status, success |-> FALSE, message |-> message]

\* POST /api/tools/execute with JSON {tool_name, parameters}; tool_name "" stands
\* for a request whose tool_name is absent or empty
HttpExecuteTool(tool_name, parameters, env) ==
    /\ lastOp' = [op |-> "http_execute_tool", name |-> tool_name,
                  kwargs |-> parameters]
    /\ UNCHANGED <<registryVars, current_project_path, project_files, tmpCount,
                   inputVars, aiVars, pending>>
    /\ IF current_project_path = NoPath
       THEN /\ reply' = ErrorResponse(400, <<"No repository loaded">>)
            /\ calls' = <<>>
       ELSE IF tool_name = ""
       THEN /\ reply' = ErrorResponse(400, <<"Tool name is required">>)
            /\ calls' = <<>>
       ELSE IF tool_name \notin DOMAIN tools
       THEN /\ reply' = ErrorResponse(400, <<"Tool not found", tool_name>>)
            /\ calls' = <<>>
       ELSE LET kwargs == DictPut(parameters, "project_path", current_project_path)
                r == RegistryExecute(Registry, tool_name, kwargs, env)
            IN  /\ calls' = r.invoked
                /\ reply' = IF r.out.kind = "return"
                            THEN [status |-> 200, success |-> TRUE,
                                  tool_name |-> tool_name, result |-> r.out.value]
                            ELSE ErrorResponse(500, <<"Error executing tool">> \o r.out.msg)

\* get_file_tree(directory): the listing of the tree under directory, here
\* identified by the directory it was read from
GetFileTree(directory) == <<[root |-> directory]>>

GithubPrefixes == {<<"h","t","t","p","s",":","/","/","g","i","t","h","u","b",".","c","o","m","/">>, <<"g","i","t","@","g","i","t","h","u","b",".","c","o","m",":">>}

RepoUrls == {<<>>, <<" ","l","o","c","a","l"," ">>, <<"l","o","c","a","l">>, <<"h","t","t","p","s",":","/","/","g","i","t","h","u","b",".","c","o","m","/","a","/","b">>,
             <<"g","i","t","@","g","i","t","h","u","b",".","c","o","m",":","a","/","b">>, <<"h","t","t","p",":","/","/","e","x","a","m","p","l","e",".","c","o","m","/","a","/","b">>}

\* POST /api/clone-repo with JSON {repo_url}; local_exists: ./my_project exists;
\* clone_ok: clone_github_repo returned success
CloneRepo(raw_url, local_exists, clone_ok) ==
    LET repo_url == Strip(raw_url)
        loaded(path) ==
            /\ project_files' = GetFileTree(path)
            /\ reply' = [status |-> 200, success |-> TRUE,
                        message |-> <<"Repository loaded successfully">>,
                        file_count |-> Len(GetFileTree(path)),
                        file_tree |-> SubSeq(GetFileTree(path), 1,
                                             Min(50, Len(GetFileTree(path))))]
    IN  /\ lastOp' = [op |-> "clone_repo", url |-> repo_url]
        /\ calls' = <<>>
        /\ UNCHANGED <<registryVars, inputVars, aiVars, pending>>
        /\ IF repo_url = <<>>
           THEN /\ reply' = ErrorResponse(400, <<"Repository URL is required">>)
                /\ UNCHANGED <<current_project_path, project_files, tmpCount>>
           ELSE IF repo_url = <<"l","o","c","a","l">>
           THEN /\ current_project_path' = LocalPath
                /\ UNCHANGED tmpCount
                /\ IF ~local_exists
                   THEN /\ reply' = ErrorResponse(400, <<"Local project directory not found">>)
                        /\ UNCHANGED project_files
                   ELSE loaded(LocalPath)
           ELSE IF ~\E pre \in GithubPrefixes : StartsWith(repo_url, pre)
           THEN /\ reply' = ErrorResponse(400, <<"Please provide a valid GitHub repository URL">>)
                /\ UNCHANGED <<current_project_path, project_files, tmpCount>>
           ELSE /\ tmpCount < MaxClones
                /\ tmpCount' = tmpCount + 1
                /\ current_project_path' = TempDir(tmpCount + 1)
                /\ IF ~clone_ok
                   THEN /\ reply' = ErrorResponse(400, <<"Error cloning repository">>)
                        /\ UNCHANGED project_files
                   ELSE loaded(TempDir(tmpCount + 1))

\* GET /api/file-tree
GetFileTreeApi ==
    /\ lastOp' = [op |-> "get_file_tree_api"]
    /\ reply' = [status |-> 200, file_tree |-> project_files]
    /\ calls' = <<>>
    /\ UNCHANGED <<registryVars, current_project_path, project_files, tmpCount,
                   inputVars, aiVars, pending>>

KwargChoices == {EmptyDict,
                 [k \in {"project_path"} |-> LocalPath],
                 [k \in {"project_path"} |-> <<"/etc", 0>>],
                 [k \in {"verbose"} |-> LocalPath]}

DirectKwargChoices == {[k \in {"project_path"} |-> LocalPath],
                       [k \in {"project_path", "verbose"} |-> LocalPath]}

EnvOutcomes == {"ok", "error"}

\* the registry as a library: registration, enumeration, dispatch
NextRegistry ==
    \/ \E r \in LateRegistrations :
          RegisterTool(r.name, r.func, r.description, r.parameters,
                       r.requires_api_key)
    \/ \E name \in LookupNames, kwargs \in DirectKwargChoices, env \in EnvOutcomes :
          ExecuteTool(name, kwargs, env)
    \/ ListTools

SpecRegistry == Init /\ [][NextRegistry]_vars

\* the HTTP application with the registry of the import
NextHttp ==
    \/ \E name \in LookupNames, kwargs \in DirectKwargChoices, env \in EnvOutcomes :
          ExecuteTool(name, kwargs, env)
    \/ \E tool_name \in LookupNames \cup {""}, parameters \in KwargChoices,
          env \in EnvOutcomes :
          HttpExecuteTool(tool_name, parameters, env)
    \/ \E raw_url \in RepoUrls, local_exists \in BOOLEAN, clone_ok \in BOOLEAN :
          CloneRepo(raw_url, local_exists, clone_ok)
    \/ GetFileTreeApi

SpecHttp == Init /\ [][NextHttp]_vars

-----------------------------------------------------------------------------
(* Intent router and POST /api/agent/analyze                               *)

\* the keyword groups of agent_analyze, in the order the handler tests them
RouterGroups ==
    <<[tool |-> "analyze_dependencies",
       words |-> {<<"d","e","p","e","n","d","e","n","c","i","e","s">>, <<"p","a","c","k","a","g","e","s">>, <<"r","e","q","u","i","r","e","m","e","n","t","s">>, <<"n","p","m">>, <<"p","i","p">>}],
      [tool |-> "analyze_code_metrics",
       words |-> {<<"m","e","t","r","i","c","s">>, <<"l","i","n","e","s">>, <<"c","o","m","p","l","e","x","i","t","y">>, <<"s","i","z","e">>, <<"s","t","a","t","i","s","t","i","c","s">>}],
      [tool |-> "find_security_issues",
       words |-> {<<"s","e","c","u","r","i","t","y">>, <<"v","u","l","n","e","r","a","b","i","l","i","t","y">>, <<"s","a","f","e">>, <<"s","e","c","u","r","e">>}],
      [tool |-> "analyze_git_history",
       words |-> {<<"g","i","t">>, <<"c","o","m","m","i","t">>, <<"h","i","s","t","o","r","y">>, <<"c","h","a","n","g","e","s">>, <<"a","u","t","h","o","r">>}],
      [tool |-> "find_todos_and_fixmes",
       words |-> {<<"t","o","d","o">>, <<"f","i","x","m","e">>, <<"t","a","s","k">>, <<"h","a","c","k">>, <<"n","o","t","e">>}],
      [tool |-> "generate_architecture_summary",
       words |-> {<<"a","r","c","h","i","t","e","c","t","u","r","e">>, <<"s","t","r","u","c","t","u","r","e">>, <<"e","n","t","r","y">>, <<"a","p","i">>, <<"e","n","d","p","o","i","n","t">>}]>>

\* any(word in question for word in words)
AnyWordIn(words, q) == \E w \in words : Contains(w, q)

\* the tools run when no keyword group matches
DefaultTools == <<"analyze_code_metrics", "analyze_dependencies">>

\* a router that stops at the first keyword group that matches (elif chain)
ToolsToRunFirstMatch(q) ==
    LET hit == {i \in 1..Len(RouterGroups) : AnyWordIn(RouterGroups[i].words, q)}
    IN  IF hit = {} THEN DefaultTools
        ELSE <<RouterGroups[CHOOSE i \in hit : \A j \in hit : i <= j].tool>>

\* a router whose fallback is dropped
ToolsToRunNoDefault(q) ==
    LET matched == SelectSeq(RouterGroups, LAMBDA g : AnyWordIn(g.words, q))
    IN  [i \in 1..Len(matched) |-> matched[i].tool]

\* tools_to_run of agent_analyze for the stripped, lower-cased question q
ToolsToRun(q) ==
    LET matched == SelectSeq(RouterGroups, LAMBDA g : AnyWordIn(g.words, q))
    IN  IF matched = <<>> THEN DefaultTools
        ELSE [i \in 1..Len(matched) |-> matched[i].tool]

-----------------------------------------------------------------------------
(* The project directory as the tools see it                               *)
(*                                                                         *)
(* project is the sequence of the regular files under the project root in  *)
(* the order os.walk yields them (the files of the root first). A file has *)
(* the directory it lies in, relative to the root (<<>> for the root), its *)
(* name, its content as text, and a fault: "none", or "read" when open or  *)
(* read raise for it (binary content, permission denied, decode failure),  *)
(* or "stat" when the file is read but os.path.getsize raises for it (the  *)
(* file was removed after it was read).                                    *)

File(dir, name, fault, content) ==
    [dir |-> dir, name |-> name, fault |-> fault, content |-> content]

\* os.path.relpath(os.path.join(root, file), project_path)
RelPath(f) == IF f.dir = <<>> THEN f.name ELSE f.dir \o <<"/">> \o f.name

\* os.walk order: the files of the root come before those of its directories,
\* and no two files have the same path
WalkOrdered(files) ==
    /\ \A i, j \in 1..Len(files) :
          i < j => /\ RelPath(files[i]) # RelPath(files[j])
                   /\ ~(files[i].dir # <<>> /\ files[j].dir = <<>>)

\* the sequences of 0..n files of the set candidates in an os.walk order
RECURSIVE WalksUpTo(_, _)
WalksUpTo(candidates, n) ==
    IF n = 0 THEN {<<>>}
    ELSE LET shorter == WalksUpTo(candidates, n - 1)
         IN  shorter \cup {w \in {Append(v, f) : v \in shorter, f \in candidates} :
                              WalkOrdered(w)}

\* the initial state of a behaviour that analyses one of the given projects
InitProject(projects) ==
    /\ InitRegistry
    /\ InitGlobals
    /\ question = <<>>
    /\ project \in projects
    /\ analysis_data = EmptyDict

\* the frame of a direct call of an analysis tool on the project: the call
\* reads files and assigns no global
ToolCall(tool, value) ==
    /\ lastOp' = [op |-> tool]
    /\ reply' = [kind |-> "return", value |-> value]
    /\ calls' = <<>>
    /\ UNCHANGED <<registryVars, current_project_path, project_files, tmpCount,
                   inputVars, aiVars, pending>>

\* the same for a tool that returns or raises, as outcome tells
ToolOutcome(tool, outcome) ==
    /\ lastOp' = [op |-> tool]
    /\ reply' = outcome
    /\ calls' = <<>>
    /\ UNCHANGED <<registryVars, current_project_path, project_files, tmpCount,
                   inputVars, aiVars, pending>>

-----------------------------------------------------------------------------
(* generate_architecture_summary                                           *)

\* the buckets of the result, in the order of the elif chain
Buckets == <<"entry_points", "api_endpoints", "database_files", "config_files",
             "test_files", "static_files">>

EntryPointNames == {<<"m","a","i","n",".","p","y">>, <<"a","p","p",".","p","y">>, <<"i","n","d","e","x",".","j","s">>, <<"s","e","r","v","e","r",".","j","s">>, <<"a","p","p",".","j","s">>}

DatabaseSuffixes == {<<".","d","b">>, <<".","s","q","l","i","t","e">>, <<".","s","q","l">>}

ConfigNames == {<<"c","o","n","f","i","g",".","p","y">>, <<"s","e","t","t","i","n","g","s",".","p","y">>, <<"c","o","n","f","i","g",".","j","s","o","n">>, <<".","e","n","v">>,
                <<"d","o","c","k","e","r","-","c","o","m","p","o","s","e",".","y","m","l">>}

StaticSuffixes == {<<".","c","s","s">>, <<".","j","s">>, <<".","h","t","m","l">>, <<".","p","n","g">>, <<".","j","p","g">>, <<".","s","v","g">>}

\* file.endswith(tuple of suffixes)
EndsWithAny(file, suffixes) == \E x \in suffixes : EndsWith(file, x)

\* the condition of the k-th branch of the elif chain, for the file name file
RuleMatches(k, file) ==
    CASE k = 1 -> file \in EntryPointNames
      [] k = 2 -> Contains(<<"a","p","i">>, Lower(file)) \/ Contains(<<"r","o","u","t","e">>, Lower(file))
      [] k = 3 -> EndsWithAny(file, DatabaseSuffixes)
      [] k = 4 -> file \in ConfigNames
      [] k = 5 -> Contains(<<"t","e","s","t">>, Lower(file)) \/ StartsWith(file, <<"t","e","s","t","_">>)
      [] k = 6 -> EndsWithAny(file, StaticSuffixes)

\* a classification that tests every rule on its own (if in place of elif)
BucketsOfEveryMatch(file) == {k \in 1..Len(Buckets) : RuleMatches(k, file)}

\* the buckets the elif chain appends the file to: the first whose rule matches
BucketsOf(file) ==
    LET hit == {k \in 1..Len(Buckets) : RuleMatches(k, file)}
    IN  IF hit = {} THEN {} ELSE {MinOf(hit)}

\* generate_architecture_summary(project_path) on the walked files
GenerateArchitectureSummary(files) ==
    [b \in {Buckets[k] : k \in 1..Len(Buckets)} |->
        LET k == CHOOSE k \in 1..Len(Buckets) : Buckets[k] = b
            chosen == SelectSeq(files, LAMBDA f : k \in BucketsOf(f.name))
        IN  [i \in 1..Len(chosen) |-> RelPath(chosen[i])]]

RunArchitectureSummary ==
    ToolCall("generate_architecture_summary", GenerateArchitectureSummary(project))

\* file names that match one rule, several rules, and none
ArchNames == {<<"m","a","i","n",".","p","y">>, <<"a","p","p",".","j","s">>, <<"t","e","s","t","_","a","p","i",".","p","y">>, <<"r","o","u","t","e","s",".","j","s">>, <<"d","a","t","a",".","s","q","l">>,
              <<"a","p","i",".","s","q","l">>, <<"c","o","n","f","i","g",".","p","y">>, <<"t","e","s","t",".","d","b">>, <<"l","a","t","e","s","t",".","c","s","s">>, <<"i","n","d","e","x",".","h","t","m","l">>,
              <<"T","e","s","t","s",".","P","Y">>, <<"R","E","A","D","M","E",".","m","d">>, <<".","e","n","v">>}

ArchCandidates ==
    {File(<<>>, name, "none", <<>>) : name \in ArchNames}
    \cup {File(<<"s","r","c">>, name, "none", <<>>) : name \in {<<"m","a","i","n",".","p","y">>, <<"t","e","s","t","_","a","p","i",".","p","y">>}}

MaxArchFiles == 2   \* files in a project given to the architecture summary

NextArchitecture == RunArchitectureSummary

SpecArchitecture ==
    InitProject(WalksUpTo(ArchCandidates, MaxArchFiles)) /\ [][NextArchitecture]_vars

-----------------------------------------------------------------------------
(* find_security_issues                                                    *)

\* s repeated n times
RECURSIVE Repeat(_, _)
Repeat(s, n) == IF n = 0 THEN <<>> ELSE s \o Repeat(s, n - 1)

Spaces == Star("space")

\* security_patterns, in the order of the dict; every pattern is used with
\* re.IGNORECASE
SecurityPatterns ==
    <<[name |-> "hardcoded_passwords",
       pattern |-> Pattern(<< <<Lit(<<"p","a","s","s","w","o","r","d">>), Spaces, Lit(<<"=">>), Spaces,
                               One("quote"), Plus("notquote"), One("quote")>> >>,
                           TRUE, FALSE)],
      [name |-> "api_keys",
       pattern |-> Pattern(<< <<Lit(<<"a","p","i">>), Opt("underdash"), Lit(<<"k","e","y">>), Spaces,
                               Lit(<<"=">>), Spaces,
                               One("quote"), Plus("notquote"), One("quote")>> >>,
                           TRUE, FALSE)],
      [name |-> "sql_injection",
       pattern |-> Pattern(<< <<Lit(<<"e","x","e","c","u","t","e">>), Spaces, Lit(<<"(">>), Spaces,
                               One("quote"), Star("any"), Lit(<<"%">>), Star("any"),
                               One("quote")>> >>,
                           TRUE, FALSE)],
      [name |-> "eval_usage",
       pattern |-> Pattern(<< <<Lit(<<"e","v","a","l">>), Spaces, Lit(<<"(">>)>> >>, TRUE, FALSE)],
      [name |-> "exec_usage",
       pattern |-> Pattern(<< <<Lit(<<"e","x","e","c">>), Spaces, Lit(<<"(">>)>> >>, TRUE, FALSE)],
      [name |-> "shell_injection",
       pattern |-> Pattern(<< <<Lit(<<"o","s",".","s","y","s","t","e","m">>), Spaces, Lit(<<"(">>)>>,
                              <<Lit(<<"s","u","b","p","r","o","c","e","s","s",".","c","a","l","l">>), Spaces, Lit(<<"(">>)>> >>,
                           TRUE, FALSE)],
      [name |-> "weak_random",
       pattern |-> Pattern(<< <<Lit(<<"r","a","n","d","o","m",".","r","a","n","d","o","m">>), Spaces, Lit(<<"(",")">>)>>,
                              <<Lit(<<"M","a","t","h",".","r","a","n","d","o","m">>), Spaces, Lit(<<"(">>), Spaces,
                                Lit(<<")">>)>> >>,
                           TRUE, FALSE)],
      [name |-> "debug_mode",
       pattern |-> Pattern(<< <<Lit(<<"d","e","b","u","g">>), Spaces, Lit(<<"=">>), Spaces, Lit(<<"T","r","u","e">>)>>,
                              <<Lit(<<"D","E","B","U","G">>), Spaces, Lit(<<"=">>), Spaces, Lit(<<"T","r","u","e">>)>> >>,
                           TRUE, FALSE)]>>

SecuritySuffixes == {<<".","p","y">>, <<".","j","s">>, <<".","t","s">>, <<".","j","s","x">>, <<".","t","s","x">>}

\* the issues list[:20] keeps
IssueCap == 20

\* the severity of an issue of the pattern named name
SeverityOf(name) ==
    IF name \in {"hardcoded_passwords", "api_keys"} THEN "high" ELSE "medium"

\* issues whose line is the one the match ends in
PatternIssuesLineOfEnd(f, k) ==
    LET matches == FindIter(SecurityPatterns[k].pattern, f.content)
    IN  [i \in 1..Len(matches) |->
            [file |-> RelPath(f),
             line |-> NewlinesBefore(f.content, matches[i].stop - 1) + 1,
             issue |-> SecurityPatterns[k].name,
             code |-> Strip(SubSeq(f.content, matches[i].start, matches[i].stop - 1)),
             severity |-> SeverityOf(SecurityPatterns[k].name)]]

\* the issues the k-th pattern adds for the file f, one per match
PatternIssues(f, k) ==
    LET matches == FindIter(SecurityPatterns[k].pattern, f.content)
    IN  [i \in 1..Len(matches) |->
            [file |-> RelPath(f),
             line |-> NewlinesBefore(f.content, matches[i].start - 1) + 1,
             issue |-> SecurityPatterns[k].name,
             code |-> Strip(SubSeq(f.content, matches[i].start, matches[i].stop - 1)),
             severity |-> SeverityOf(SecurityPatterns[k].name)]]

\* the issues one walked file adds: none unless it is a source file that can be
\* read; else those of each pattern in turn
FileIssues(f) ==
    IF ~EndsWithAny(f.name, SecuritySuffixes) \/ f.fault = "read" THEN <<>>
    ELSE Concat([k \in 1..Len(SecurityPatterns) |-> PatternIssues(f, k)])

\* security_issues after the walk
SecurityIssues(files) == Concat([i \in 1..Len(files) |-> FileIssues(files[i])])

\* collections.Counter of the severities of a list of issues
SeverityCounter(issues) ==
    [v \in {issues[i].severity : i \in 1..Len(issues)} |->
        Cardinality({i \in 1..Len(issues) : issues[i].severity = v})]

\* a result whose histogram is taken over the capped list
SecurityResultCountsCapped(all) ==
    [total_issues |-> Len(all),
     issues |-> SubSeq(all, 1, Min(IssueCap, Len(all))),
     severity_breakdown |-> SeverityCounter(SubSeq(all, 1, Min(IssueCap, Len(all))))]

\* the dict find_security_issues returns for the list all of security_issues
SecurityResult(all) ==
    [total_issues |-> Len(all),
     issues |-> SubSeq(all, 1, Min(IssueCap, Len(all))),
     severity_breakdown |-> SeverityCounter(all)]

\* find_security_issues(project_path) on the walked files
FindSecurityIssues(files) == SecurityResult(SecurityIssues(files))

RunSecurityIssues == ToolCall("find_security_issues", FindSecurityIssues(project))

MaxEvalLines == 21      \* lines with an eval call in the file scanned first
MaxPasswordLines == 1   \* lines with a password literal in that file

\* a source file with p password lines after e eval lines; optionally a second
\* source file with three issues, the first on two lines after an empty line,
\* a source file that cannot be read and a text file that is not scanned
SecurityProjects ==
    {<<File(<<>>, <<"a",".","p","y">>, "none",
            Repeat(<<"e","v","a","l","(","\n">>, e) \o Repeat(<<"p","a","s","s","w","o","r","d","=","\"","p","\"","\n">>, p))>>
       \o (IF second THEN <<File(<<>>, <<"b",".","j","s">>, "none",
                                 <<"\n","A","P","I","_","K","E","Y"," ","=","\n"," ","'","k","'","\n","o","s",".","s","y","s","t","e","m"," ","(","c",")","\n","x"," ","="," ","M","a","t","h",".","r","a","n","d","o","m","("," ",")">>)>>
           ELSE <<>>)
       \o (IF third THEN <<File(<<>>, <<"n","o","t","e","s",".","t","x","t">>, "none", <<"e","v","a","l","(">>),
                           File(<<"s","r","c">>, <<"c",".","p","y">>, "read", <<"e","v","a","l","(">>)>>
           ELSE <<>>) :
       e \in 0..MaxEvalLines, p \in 0..MaxPasswordLines,
       second \in BOOLEAN, third \in BOOLEAN}

NextSecurity == RunSecurityIssues

SpecSecurity == InitProject(SecurityProjects) /\ [][NextSecurity]_vars

-----------------------------------------------------------------------------
(* find_todos_and_fixmes                                                   *)

\* the keys of tasks and the marker of each, in the order of the dict patterns
TaskTypes == <<"todos", "fixmes", "hacks", "notes">>

TaskMarkers == <<<<"T","O","D","O">>, <<"F","I","X","M","E">>, <<"H","A","C","K">>, <<"N","O","T","E">>>>

CommentTokens == <<<<"#">>, <<"/","/">>, <<"/","*">>>>

\* (?:#|//|/\*)\s*MARKER[:\s]* : the part of a pattern before its group
TaskPrefix(marker) ==
    Pattern([t \in 1..Len(CommentTokens) |->
                <<Lit(CommentTokens[t]), Spaces, Lit(marker), Star("colonspace")>>],
            TRUE, FALSE)

\* (?:#|//|/\*)\s*MARKER[:\s]*(.+), used with re.IGNORECASE
TaskPattern(marker) ==
    Pattern([t \in 1..Len(CommentTokens) |->
                <<Lit(CommentTokens[t]), Spaces, Lit(marker), Star("colonspace"),
                  Plus("any")>>],
            TRUE, FALSE)

\* match.group(1) of a match of the pattern of marker in line: [:\s]* takes all
\* it can while a character is left for the group
Group1(marker, line, match) ==
    LET starts == {e \in EndsAt(TaskPrefix(marker), line, match.start) :
                      e < match.stop}
    IN  SubSeq(line, MaxOf(starts), match.stop - 1)

TaskSuffixes == {<<".","p","y">>, <<".","j","s">>, <<".","t","s">>, <<".","j","s","x">>, <<".","t","s","x">>, <<".","j","a","v","a">>, <<".","c","p","p">>,
                 <<".","c">>, <<".","h">>}

\* the entries the line numbered number adds to tasks[TaskTypes[k]]
LineTasks(f, line, number, k) ==
    LET matches == FindIter(TaskPattern(TaskMarkers[k]), line)
    IN  [j \in 1..Len(matches) |->
            [file |-> RelPath(f),
             line |-> number,
             content |-> Strip(Group1(TaskMarkers[k], line, matches[j])),
             full_line |-> Strip(line)]]

\* the entries one walked file adds to tasks[TaskTypes[k]]: none unless it is
\* a source file that can be read
FileTasks(f, k) ==
    IF ~EndsWithAny(f.name, TaskSuffixes) \/ f.fault = "read" THEN <<>>
    ELSE LET lines == SplitLines(f.content)
         IN  Concat([i \in 1..Len(lines) |-> LineTasks(f, lines[i], i, k)])

\* tasks[TaskTypes[k]] after the walk
TasksOfType(files, k) == Concat([i \in 1..Len(files) |-> FileTasks(files[i], k)])

\* find_todos_and_fixmes(project_path) on the walked files: the four lists and
\* a count for each key but todos
FindTodosAndFixmes(files) ==
    [todos |-> TasksOfType(files, 1),
     fixmes |-> TasksOfType(files, 2),
     hacks |-> TasksOfType(files, 3),
     notes |-> TasksOfType(files, 4),
     fixmes_count |-> Len(TasksOfType(files, 2)),
     hacks_count |-> Len(TasksOfType(files, 3)),
     notes_count |-> Len(TasksOfType(files, 4))]

RunTodosAndFixmes == ToolCall("find_todos_and_fixmes", FindTodosAndFixmes(project))

MaxTodoLines == 25   \* lines "# TODO: a" at the end of the file
MaxHeadLines == 1    \* lines of other kinds before them

\* the kinds of line a file starts with
HeadLines ==
    {<<"#"," ","T","O","D","O">>, <<"#"," ","T","O","D","O",":">>, <<"#","T","O","D","O"," ",":"," ","f","i","x">>, <<"x"," ","="," ","1"," ","/","/"," ","t","o","d","o"," ","b">>, <<"/","*"," ","T","o","d","o"," ","c"," ","*","/">>,
     <<"#"," ","F","I","X","M","E",":"," ","d"," ","/","/"," ","H","A","C","K"," ","e">>, <<"t","o","d","o"," ","l","a","t","e","r">>, <<"x"," ","="," ","1">>, <<"/","/"," ","n","o","t","e">>}

RECURSIVE HeadsUpTo(_)
HeadsUpTo(n) ==
    IF n = 0 THEN {<<>>}
    ELSE HeadsUpTo(n - 1)
         \cup {h \o l \o <<"\n">> : h \in HeadsUpTo(n - 1), l \in HeadLines}

\* one file, a source file or not, of some head lines and n TODO lines
TodoProjects ==
    {<<File(<<>>, name, "none", head \o Repeat(<<"#"," ","T","O","D","O",":"," ","a","\n">>, n))>> :
       name \in {<<"t",".","p","y">>, <<"t",".","m","d">>}, head \in HeadsUpTo(MaxHeadLines),
       n \in 0..MaxTodoLines}
    \cup {<<File(<<"s","r","c">>, <<"u",".","c">>, "read", <<"#"," ","T","O","D","O",":"," ","a">>)>>}

NextTodos == RunTodosAndFixmes

SpecTodos == InitProject(TodoProjects) /\ [][NextTodos]_vars

-----------------------------------------------------------------------------
(* analyze_code_metrics                                                    *)

\* os.path.splitext(file)[1]: from the last dot on, unless only dots precede it
Splitext1(file) ==
    LET dots == {i \in 1..Len(file) :
                    file[i] = "." /\ \E j \in 1..(i - 1) : file[j] # "."}
    IN  IF dots = {} THEN <<>> ELSE SubSeq(file, MaxOf(dots), Len(file))

MetricsExtensions == {<<".","p","y">>, <<".","j","s">>, <<".","t","s">>, <<".","j","s","x">>, <<".","t","s","x">>, <<".","h","t","m","l">>, <<".","c","s","s">>,
                      <<".","m","d">>, <<".","t","x","t">>, <<".","j","s","o","n">>}

ComplexityExtensions == {<<".","p","y">>, <<".","j","s">>, <<".","t","s">>}

\* def\s+\w+|function\s+\w+|class\s+\w+
ComplexityPattern ==
    Pattern(<< <<Lit(<<"d","e","f">>), Plus("space"), Plus("word")>>,
               <<Lit(<<"f","u","n","c","t","i","o","n">>), Plus("space"), Plus("word")>>,
               <<Lit(<<"c","l","a","s","s">>), Plus("space"), Plus("word")>> >>,
            FALSE, FALSE)

\* the number of largest files reported
LargestCap == 10

\* metrics and file_sizes before the walk
EmptyMetrics ==
    [total_files |-> 0, total_lines |-> 0, file_types |-> EmptyDict,
     file_sizes |-> <<>>, complexity_estimate |-> 0]

\* dict.get(key, 0)
GetOrZero(dict, key) == IF key \in DOMAIN dict THEN dict[key] ELSE 0

\* one iteration of the loop over the files, on the file f: the counters are
\* incremented once the content is read; os.path.getsize is called after that,
\* and when it raises the bare except leaves the iteration with the counters
\* incremented and nothing appended to file_sizes or added to the estimate
MetricsStep(acc, f) ==
    LET ext == Lower(Splitext1(f.name))
        lines == Len(SplitLines(f.content))
        counted == [acc EXCEPT !.total_files = @ + 1,
                               !.total_lines = @ + lines,
                               !.file_types = DictPut(@, ext, GetOrZero(@, ext) + 1)]
        sized == [counted EXCEPT !.file_sizes =
                     Append(@, [file |-> RelPath(f), lines |-> lines,
                                size |-> Len(f.content)])]
    IN  IF StartsWith(f.name, <<".">>) THEN acc
        ELSE IF ext \notin MetricsExtensions THEN acc
        ELSE IF f.fault = "read" THEN acc
        ELSE IF f.fault = "stat" THEN counted
        ELSE IF ext \in ComplexityExtensions
        THEN [sized EXCEPT !.complexity_estimate =
                 @ + Len(FindIter(ComplexityPattern, f.content))]
        ELSE sized

\* metrics and file_sizes after the walk of the first n files
RECURSIVE MetricsAfter(_, _)
MetricsAfter(files, n) ==
    IF n = 0 THEN EmptyMetrics ELSE MetricsStep(MetricsAfter(files, n - 1), files[n])

\* list.sort(key=lines, reverse=True): descending, stable
RECURSIVE SortByLinesDesc(_)
SortByLinesDesc(sizes) ==
    IF sizes = <<>> THEN <<>>
    ELSE LET most == MaxOf({sizes[i].lines : i \in 1..Len(sizes)})
             first == MinOf({i \in 1..Len(sizes) : sizes[i].lines = most})
         IN  <<sizes[first]>>
             \o SortByLinesDesc(SubSeq(sizes, 1, first - 1)
                                \o SubSeq(sizes, first + 1, Len(sizes)))

\* analyze_code_metrics(project_path) on the walked files
AnalyzeCodeMetrics(files) ==
    LET acc == MetricsAfter(files, Len(files))
        sorted == SortByLinesDesc(acc.file_sizes)
    IN  [total_files |-> acc.total_files,
         total_lines |-> acc.total_lines,
         file_types |-> acc.file_types,
         largest_files |-> SubSeq(sorted, 1, Min(LargestCap, Len(sorted))),
         complexity_estimate |-> acc.complexity_estimate]

RunCodeMetrics == ToolCall("analyze_code_metrics", AnalyzeCodeMetrics(project))

MaxMetricsFiles == 2

\* files of a project: read and measured, read but gone when measured, not
\* readable, hidden, of another extension, in a hidden directory
MetricsCandidates ==
    {File(<<>>, <<"a",".","p","y">>, "none", <<"d","e","f"," ","f","(","x",")",":","\n"," "," ","r","e","t","u","r","n"," ","x","\n">>),
     File(<<>>, <<"B",".","P","Y">>, "stat", <<"c","l","a","s","s"," ","B",":"," ","p","a","s","s">>),
     File(<<>>, <<"c",".","m","d">>, "read", <<"#"," ","c">>),
     File(<<>>, <<".","e","n","v",".","p","y">>, "none", <<"d","e","f"," ","h","i","d","d","e","n","(",")",":"," ","p","a","s","s">>),
     File(<<>>, <<"d",".","b","i","n">>, "none", <<"c","l","a","s","s"," ","D">>),
     File(<<>>, <<"n","o","t","e","s",".","t","x","t">>, "none", <<"d","e","f"," ","f","\n","c","l","a","s","s"," ","C","\n">>),
     File(<<"s","r","c">>, <<"e",".","j","s">>, "none", <<"f","u","n","c","t","i","o","n"," ","g","(",")","\n","f","u","n","c","t","i","o","n"," "," ","h","(",")","\n","\n">>),
     File(<<"s","r","c">>, <<"f",".","t","x","t">>, "stat", <<"x">>),
     File(<<"s","r","c">>, <<"g",".","j","s","o","n">>, "none", <<"[","1","]">>),
     File(<<".","g","i","t","h","u","b">>, <<"c","i",".","m","d">>, "none", <<"#"," ","c","i","\n">>)}

MetricsProjects == WalksUpTo(MetricsCandidates, MaxMetricsFiles)

NextMetrics == RunCodeMetrics

SpecMetrics == InitProject(MetricsProjects) /\ [][NextMetrics]_vars

MaxLargestFiles == 11   \* files of a project with more files than are reported

\* the i-th file of such a project, with the given number of lines (a text
\* with k newlines splits into k + 1 lines)
SizedFile(i, lines, fault) ==
    File(<<>>, <<<<"a","b","c","d","e","f","g","h","i","j","k","l","m","n","o","p","q","r","s","t","u","v","w","x","y","z">>[i]>> \o <<".","p","y">>, fault,
         Repeat(<<"\n">>, lines - 1))

\* projects of up to n files of one or two lines each
RECURSIVE SizedProjects(_)
SizedProjects(n) ==
    IF n = 0 THEN {<<>>}
    ELSE SizedProjects(n - 1)
         \cup {Append(p, SizedFile(n, lines, "none")) :
                  p \in {q \in SizedProjects(n - 1) : Len(q) = n - 1},
                  lines \in {1, 2}}

\* the same, with or without a last file that is gone when it is measured
LargestProjects ==
    SizedProjects(MaxLargestFiles)
    \cup {Append(p, SizedFile(Len(p) + 1, 3, "stat")) :
             p \in SizedProjects(MaxLargestFiles)}

NextLargest == RunCodeMetrics

SpecLargest == InitProject(LargestProjects) /\ [][NextLargest]_vars

-----------------------------------------------------------------------------
(* json.load, for texts of objects, strings, null and the empty array,     *)
(* without escapes in the strings                                           *)

LBrace == <<"{">>

RBrace == <<"}">>

CharAt(s, i) == IF i >= 1 /\ i <= Len(s) THEN s[i] ELSE "eof"

\* the first position from i on that holds no JSON white space
SkipWs(s, i) ==
    LET rest == {j \in i..Len(s) : s[j] \notin {" ", "\t", "\n", "\r"}}
    IN  IF rest = {} THEN Max(i, Len(s) + 1) ELSE MinOf(rest)

ParseFail == [ok |-> FALSE, val |-> [t |-> "none"], next |-> 0]

ParseOk(val, next) == [ok |-> TRUE, val |-> val, next |-> next]

\* a string literal at position i
ParseString(s, i) ==
    LET close == {j \in (i + 1)..Len(s) : s[j] = "\""}
    IN  IF CharAt(s, i) # "\"" \/ close = {} THEN ParseFail
        ELSE ParseOk([t |-> "string", v |-> SubSeq(s, i + 1, MinOf(close) - 1)],
                     MinOf(close) + 1)

RECURSIVE ParseValue(_, _)
RECURSIVE ParseMembers(_, _, _, _)

\* a value, from position i on
ParseValue(s, i) ==
    LET at == SkipWs(s, i)
        c == CharAt(s, at)
    IN  CASE c = "{" -> ParseMembers(s, SkipWs(s, at + 1), EmptyDict, TRUE)
          [] c = "\"" -> ParseString(s, at)
          [] c = "[" -> IF CharAt(s, SkipWs(s, at + 1)) = "]"
                        THEN ParseOk([t |-> "array"], SkipWs(s, at + 1) + 1)
                        ELSE ParseFail
          [] c = "n" -> IF OccursAt(<<"n","u","l","l">>, s, at)
                        THEN ParseOk([t |-> "null"], at + 4)
                        ELSE ParseFail
          [] OTHER -> ParseFail

\* the members of an object whose members before position i are acc; first: no
\* member is read yet, so the object may end here. A later member of the same
\* name replaces the earlier one
ParseMembers(s, i, acc, first) ==
    IF first /\ CharAt(s, i) = "}" THEN ParseOk([t |-> "object", v |-> acc], i + 1)
    ELSE LET key == ParseString(s, i)
             colon == SkipWs(s, key.next)
             value == ParseValue(s, colon + 1)
             after == SkipWs(s, value.next)
         IN  IF ~key.ok \/ CharAt(s, colon) # ":" THEN ParseFail
             ELSE IF ~value.ok THEN ParseFail
             ELSE IF CharAt(s, after) = ","
             THEN ParseMembers(s, SkipWs(s, after + 1),
                               DictPut(acc, key.val.v, value.val), FALSE)
             ELSE IF CharAt(s, after) = "}"
             THEN ParseOk([t |-> "object", v |-> DictPut(acc, key.val.v, value.val)],
                          after + 1)
             ELSE ParseFail

\* json.load(f): the value of the text, or t = "invalid" where it raises
\* JSONDecodeError
JsonLoad(s) ==
    LET value == ParseValue(s, 1)
    IN  IF value.ok /\ SkipWs(s, value.next) > Len(s) THEN value.val
        ELSE [t |-> "invalid"]

-----------------------------------------------------------------------------
(* analyze_dependencies                                                    *)

\* the files named name in the root of the project: os.path.exists tells
\* whether there is one
RootFiles(files, name) ==
    SelectSeq(files, LAMBDA f : f.dir = <<>> /\ f.name = name)

\* results before the first manifest is looked at
EmptyResults ==
    [python_deps |-> <<>>, node_deps |-> EmptyDict, outdated |-> <<>>,
     security_issues |-> <<>>, total_deps |-> 0]

Returns(value) == [kind |-> "return", value |-> value]

Raises(type) == [kind |-> "raise", type |-> type]

\* a reading of requirements.txt that tests for '#' nowhere
RequirementsDepsKeepComments(content) ==
    LET lines == ReadLines(content)
        kept == SelectSeq(lines, LAMBDA line : Strip(line) # <<>>)
    IN  [i \in 1..Len(kept) |-> Strip(kept[i])]

\* [line.strip() for line in f.readlines()
\*  if line.strip() and not line.startswith('#')]
RequirementsDeps(content) ==
    LET lines == ReadLines(content)
        kept == SelectSeq(lines, LAMBDA line :
                             Strip(line) # <<>> /\ ~StartsWith(line, <<"#">>))
    IN  [i \in 1..Len(kept) |-> Strip(kept[i])]

\* the requirements.txt step: the open and the read are in no try
AfterRequirements(files, results) ==
    LET found == RootFiles(files, <<"r","e","q","u","i","r","e","m","e","n","t","s",".","t","x","t">>)
    IN  IF found = <<>> THEN Returns(results)
        ELSE IF found[1].fault = "read" THEN Raises("OSError")
        ELSE LET deps == RequirementsDeps(found[1].content)
             IN  Returns([results EXCEPT !.python_deps = deps,
                                         !.total_deps = @ + Len(deps)])

\* pkg_data.get(key, {}) of a JSON object
GetOrEmptyObject(object, key) ==
    IF key \in DOMAIN object THEN object[key] ELSE [t |-> "object", v |-> EmptyDict]

\* the Python value of a JSON value that is a member of a dict
PyValue(value) == IF value.t = "string" THEN value.v ELSE value

\* {**deps, **dev_deps} and its len
Merged(deps, dev_deps) ==
    [dict |-> [x \in DOMAIN deps \cup DOMAIN dev_deps |->
                  PyValue(IF x \in DOMAIN dev_deps THEN dev_deps[x] ELSE deps[x])],
     len |-> Cardinality(DOMAIN deps \cup DOMAIN dev_deps)]

\* the package.json step: only json.JSONDecodeError is caught
AfterPackageJson(files, results) ==
    LET found == RootFiles(files, <<"p","a","c","k","a","g","e",".","j","s","o","n">>)
        pkg_data == JsonLoad(found[1].content)
        deps == GetOrEmptyObject(pkg_data.v, <<"d","e","p","e","n","d","e","n","c","i","e","s">>)
        dev_deps == GetOrEmptyObject(pkg_data.v, <<"d","e","v","D","e","p","e","n","d","e","n","c","i","e","s">>)
        merged == Merged(deps.v, dev_deps.v)
    IN  IF found = <<>> THEN Returns(results)
        ELSE IF found[1].fault = "read" THEN Raises("OSError")
        ELSE IF pkg_data.t = "invalid"
        THEN Returns([results EXCEPT !.node_deps =
                         [k \in {<<"e","r","r","o","r">>} |-> <<"I","n","v","a","l","i","d"," ","J","S","O","N">>]])
        ELSE IF pkg_data.t # "object" THEN Raises("AttributeError")
        ELSE IF deps.t # "object" \/ dev_deps.t # "object" THEN Raises("TypeError")
        ELSE Returns([results EXCEPT !.node_deps = merged.dict,
                                     !.total_deps = @ + merged.len])

\* ^(\w+)\s*= with re.MULTILINE
PipfilePattern == Pattern(<< <<Plus("word"), Spaces, Lit(<<"=">>)>> >>, FALSE, TRUE)

\* re.findall of the pattern: group 1 of each match
PipfilePackages(content) ==
    LET matches == FindIter(PipfilePattern, content)
    IN  [i \in 1..Len(matches) |->
            SubSeq(content, matches[i].start,
                   matches[i].start + RunLength("word", content, matches[i].start) - 1)]

\* the Pipfile step: a bare except passes over any failure
AfterPipfile(files, results) ==
    LET found == RootFiles(files, <<"P","i","p","f","i","l","e">>)
    IN  IF found = <<>> THEN Returns(results)
        ELSE IF found[1].fault = "read" THEN Returns(results)
        ELSE LET packages == PipfilePackages(found[1].content)
             IN  Returns([results EXCEPT !.python_deps = @ \o packages,
                                         !.total_deps = @ + Len(packages)])

\* analyze_dependencies(project_path) on the files of the project: the three
\* steps in turn, an exception of a step ends the call
AnalyzeDependencies(files) ==
    LET first == AfterRequirements(files, EmptyResults)
        second == IF first.kind = "raise" THEN first
                  ELSE AfterPackageJson(files, first.value)
    IN  IF second.kind = "raise" THEN second ELSE AfterPipfile(files, second.value)

RunDependencies == ToolOutcome("analyze_dependencies", AnalyzeDependencies(project))

\* s1 + sep + s2 + ... for a sequence of strings
RECURSIVE Join(_, _)
Join(ss, sep) ==
    IF ss = <<>> THEN <<>>
    ELSE IF Len(ss) = 1 THEN ss[1]
    ELSE ss[1] \o sep \o Join(Tail(ss), sep)

\* the text of a JSON object of the given pairs of a name and a version
RenderObject(pairs) ==
    LBrace \o Join([i \in 1..Len(pairs) |->
                       <<"\"">> \o pairs[i][1] \o <<"\"",":"," ","\"">> \o pairs[i][2] \o <<"\"">>], <<","," ">>)
           \o RBrace

Absent == [given |-> FALSE, pairs |-> <<>>]

Given(pairs) == [given |-> TRUE, pairs |-> pairs]

\* the text of a package.json with the given dependencies and devDependencies
RenderPackageJson(m) ==
    LBrace
    \o Join(<<<<"\"","n","a","m","e","\"",":"," ","\"","a","p","p","\"">>>>
            \o (IF m.dependencies.given
                THEN <<<<"\"","d","e","p","e","n","d","e","n","c","i","e","s","\"",":"," ">> \o RenderObject(m.dependencies.pairs)>>
                ELSE <<>>)
            \o (IF m.devDependencies.given
                THEN <<<<"\"","d","e","v","D","e","p","e","n","d","e","n","c","i","e","s","\"",":"," ">> \o RenderObject(m.devDependencies.pairs)>>
                ELSE <<>>),
            <<","," ">>)
    \o RBrace \o <<"\n">>

\* package manifests: both mappings with a common name, one mapping, none
PackageManifests ==
    {[dependencies |-> Given(<< <<<<"e","x","p","r","e","s","s">>, <<"^","4",".","0">>>>, <<<<"l","o","d","a","s","h">>, <<"1",".","0">>>> >>),
      devDependencies |-> Given(<< <<<<"l","o","d","a","s","h">>, <<"2",".","0">>>>, <<<<"j","e","s","t">>, <<"*">>>> >>)],
     [dependencies |-> Given(<< <<<<"r","e","a","c","t">>, <<"1","8">>>> >>), devDependencies |-> Absent],
     [dependencies |-> Absent, devDependencies |-> Absent]}

\* texts of a package.json that is no such manifest: a trailing comma, an
\* array, a mapping that is null
OtherPackageTexts ==
    {LBrace \o <<"\"","d","e","p","e","n","d","e","n","c","i","e","s","\"",":"," ">> \o LBrace \o <<"\"","a","\"",":"," ","\"","1","\"",",">> \o RBrace \o RBrace,
     <<"[","]">>,
     LBrace \o <<"\"","d","e","p","e","n","d","e","n","c","i","e","s","\"",":"," ","n","u","l","l">> \o RBrace}

\* lines of a requirements.txt: entries, lines to skip, an indented comment
RequirementEntries == {<<"f","l","a","s","k","=","=","2",".","0">>, <<" ","r","e","q","u","e","s","t","s"," ">>}

RequirementSkips == {<<" "," ">>, <<"#"," ","p","i","n","n","e","d">>}

RequirementLines == RequirementEntries \cup RequirementSkips \cup {<<" "," ","#"," ","n","o","t","e">>}

\* lines of a Pipfile: entries, lines that are none, a key that is no identifier
PipfileEntries == {<<"f","l","a","s","k"," ","="," ","\"","*","\"">>, <<"r","e","q","u","e","s","t","s","=","\"","2",".","0","\"">>}

PipfileSkips == {<<"[","p","a","c","k","a","g","e","s","]">>, <<>>}

PipfileLines == PipfileEntries \cup PipfileSkips \cup {<<"f","l","a","s","k","-","c","o","r","s"," ","="," ","\"","*","\"">>}

\* the texts of 0..n lines of the set lines, each line ended
RECURSIVE TextsUpTo(_, _)
TextsUpTo(lines, n) ==
    IF n = 0 THEN {<<>>}
    ELSE TextsUpTo(lines, n - 1)
         \cup {t \o l \o <<"\n">> : t \in TextsUpTo(lines, n - 1), l \in lines}

MaxRequirementLines == 2
MaxPipfileLines == 1

\* the manifest name in the root: with one of the texts, unreadable, or not
\* there
ManifestChoices(name, texts) ==
    {<<File(<<>>, name, "none", t)>> : t \in texts}
    \cup {<<File(<<>>, name, "read", <<>>)>>, <<>>}

DependencyProjects ==
    {r \o p \o q :
       r \in ManifestChoices(<<"r","e","q","u","i","r","e","m","e","n","t","s",".","t","x","t">>,
                             TextsUpTo(RequirementLines, MaxRequirementLines)),
       p \in ManifestChoices(<<"p","a","c","k","a","g","e",".","j","s","o","n">>,
                             {RenderPackageJson(m) : m \in PackageManifests}
                             \cup OtherPackageTexts),
       q \in ManifestChoices(<<"P","i","p","f","i","l","e">>, TextsUpTo(PipfileLines, MaxPipfileLines))}

NextDependencies == RunDependencies

SpecDependencies == InitProject(DependencyProjects) /\ [][NextDependencies]_vars

-----------------------------------------------------------------------------
(* analyze_git_history                                                     *)

\* the number of commits of the end of the list the loop visits
HistoryWindow == 50

\* the number of commits recent_commits takes
RecentCap == 10

\* a 10-character stand-in for the 40 characters of the hexsha of commit i
HexSha(i) == <<i \div 10, i % 10, 0, 0, 0, 0, 0, 0, 7, 7>>

\* the commit at place i of repo.iter_commits(), which yields the newest commit
\* first: the newest k commits are of one author and month, the older ones of
\* another
Commit(i, k) ==
    [hexsha |-> HexSha(i),
     message |-> <<" ","f","i","x"," "," ","\n">>,
     author |-> IF i <= k THEN <<"a","l","i","c","e">> ELSE <<"b","o","b">>,
     committed |-> IF i <= k THEN [year |-> 2024, month |-> 2, day |-> 1]
                   ELSE [year |-> 2024, month |-> 1, day |-> 31],
     files |-> IF i <= k THEN {<<"a",".","p","y">>} ELSE {<<"a",".","p","y">>, <<"b",".","p","y">>}]

\* what git.Repo(project_path) and repo.iter_commits() find at the path: a
\* repository with a history (newest first), or a path where the library raises
Repository(state, n, k) ==
    [state |-> state, commits |-> [i \in 1..n |-> Commit(i, k)]]

\* the exception the library raises for a path in the given state
GitFailure(state) ==
    CASE state = "no_path" -> "NoSuchPathError"
      [] state = "not_a_repo" -> "InvalidGitRepositoryError"
      [] state = "empty" -> "ValueError"
      [] state = "unreadable" -> "GitCommandError"
      [] state = "stats_fail" -> "GitCommandError"

\* the entry of recent_commits for a commit
RecentEntry(commit) ==
    [hash |-> SubSeq(commit.hexsha, 1, Min(8, Len(commit.hexsha))),
     message |-> Strip(commit.message),
     author |-> commit.author,
     date |-> commit.committed]

\* committed_datetime.strftime("%Y-%m")
YearMonth(commit) == <<commit.committed.year, commit.committed.month>>

\* the dict that counts, for each key of the commits of window, the commits
\* that have it; keysOf(commit) is the set of keys of a commit
CountBy(window, keysOf(_)) ==
    [key \in UNION {keysOf(window[i]) : i \in 1..Len(window)} |->
        Cardinality({i \in 1..Len(window) : key \in keysOf(window[i])})]

\* commit_stats after the loop over commits[-50:]
CommitStats(commits) ==
    LET n == Len(commits)
        window == SubSeq(commits, Max(1, n - HistoryWindow + 1), n)
    IN  [total_commits |-> n,
         authors |-> CountBy(window, LAMBDA c : {c.author}),
         commit_frequency |-> CountBy(window, LAMBDA c : {YearMonth(c)}),
         recent_commits |-> [i \in 1..Min(RecentCap, Len(window)) |->
                               RecentEntry(window[i])],
         file_changes |-> CountBy(window, LAMBDA c : c.files)]

\* the function without its try: an exception of the library leaves it
AnalyzeGitHistoryNoTry(repo) ==
    IF repo.state # "repo" THEN Raises(GitFailure(repo.state))
    ELSE Returns(CommitStats(repo.commits))

\* analyze_git_history(project_path): every Exception raised inside becomes a
\* dict with the key error
AnalyzeGitHistory(repo) ==
    IF repo.state # "repo"
    THEN Returns([error |-> <<"Git analysis failed: ", GitFailure(repo.state)>>])
    ELSE Returns(CommitStats(repo.commits))

RunGitHistory == ToolOutcome("analyze_git_history", AnalyzeGitHistory(project))

MaxCommits == 52

\* histories of 1..MaxCommits commits, and the paths the library raises for
HistoryRepos ==
    {Repository("repo", n, k) : n \in 1..MaxCommits, k \in 0..2}
    \cup {Repository("repo", n, n - 1) : n \in 1..MaxCommits}
    \cup {Repository(state, 0, 0) : state \in {"no_path", "not_a_repo", "empty"}}
    \cup {Repository(state, 3, 1) : state \in {"unreadable", "stats_fail"}}

NextHistory == RunGitHistory

SpecHistory == InitProject(HistoryRepos) /\ [][NextHistory]_vars

-----------------------------------------------------------------------------
(* The four analyzers that read the files of the project, on one project    *)

\* what the analyzer named tool gives its caller for the walked files
ScannerOutcome(tool, files) ==
    CASE tool = "analyze_dependencies" -> AnalyzeDependencies(files)
      [] tool = "analyze_code_metrics" -> Returns(AnalyzeCodeMetrics(files))
      [] tool = "find_security_issues" -> Returns(FindSecurityIssues(files))
      [] tool = "find_todos_and_fixmes" -> Returns(FindTodosAndFixmes(files))

ScannerNames == {"analyze_dependencies", "analyze_code_metrics",
                 "find_security_issues", "find_todos_and_fixmes"}

RunScanner(tool) == ToolOutcome(tool, ScannerOutcome(tool, project))

MaxScannedFiles == 2

\* files of a project, some of which cannot be read as UTF-8 text
ScannerCandidates ==
    {File(<<>>, <<"a",".","p","y">>, "none", <<"#"," ","T","O","D","O",":"," ","x","\n","r"," ","="," ","e","v","a","l","(","s",")","\n","d","e","f"," ","f","(",")",":"," ","p","a","s","s","\n">>),
     File(<<>>, <<"b",".","p","y">>, "read", <<>>),
     File(<<>>, <<"r","e","q","u","i","r","e","m","e","n","t","s",".","t","x","t">>, "none", <<"f","l","a","s","k","\n">>),
     File(<<>>, <<"r","e","q","u","i","r","e","m","e","n","t","s",".","t","x","t">>, "read", <<>>),
     File(<<>>, <<"p","a","c","k","a","g","e",".","j","s","o","n">>, "read", <<>>),
     File(<<>>, <<"P","i","p","f","i","l","e">>, "read", <<>>),
     File(<<"s","r","c">>, <<"c",".","j","s">>, "read", <<>>),
     File(<<"s","r","c">>, <<"d",".","t","s">>, "none", <<"/","/"," ","F","I","X","M","E"," ","y","\n","p","a","s","s","w","o","r","d"," ","="," ","\"","p","\"">>)}

ScannerProjects == WalksUpTo(ScannerCandidates, MaxScannedFiles)

NextScanners == \E tool \in ScannerNames : RunScanner(tool)

SpecScanners == InitProject(ScannerProjects) /\ [][NextScanners]_vars

-----------------------------------------------------------------------------
(* generate_basic_response: the answer without an AI service. The text of  *)
(* an answer is the sequence of the parts its template is made of, each     *)
(* with the values the template puts into it.                               *)

\* dict.get(key, default)
Get(dict, key, default) == IF key \in DOMAIN dict THEN dict[key] ELSE default

\* the keyword lists of the categories, in the order of the elif chain
ResponseCategories ==
    <<[category |-> "database",
       words |-> {<<"d","a","t","a","b","a","s","e">>, <<"d","b">>, <<"s","q","l">>, <<"d","a","t","a">>}],
      [category |-> "dependencies",
       words |-> {<<"d","e","p","e","n","d","e","n","c","i","e","s">>, <<"p","a","c","k","a","g","e","s">>, <<"l","i","b","r","a","r","i","e","s">>, <<"r","e","q","u","i","r","e","m","e","n","t","s">>}],
      [category |-> "security",
       words |-> {<<"s","e","c","u","r","i","t","y">>, <<"v","u","l","n","e","r","a","b","i","l","i","t","y">>, <<"s","a","f","e">>, <<"s","e","c","u","r","e">>}],
      [category |-> "metrics",
       words |-> {<<"l","i","n","e","s">>, <<"c","o","d","e">>, <<"s","i","z","e">>, <<"c","o","m","p","l","e","x","i","t","y">>, <<"f","i","l","e","s">>}]>>

\* a dispatch that takes the last category whose keywords occur
CategoryOfLastMatch(question_lower) ==
    LET hit == {i \in 1..Len(ResponseCategories) :
                   AnyWordIn(ResponseCategories[i].words, question_lower)}
    IN  IF hit = {} THEN "default" ELSE ResponseCategories[MaxOf(hit)].category

\* the branch of the if/elif chain taken for question_lower
CategoryOf(question_lower) ==
    LET hit == {i \in 1..Len(ResponseCategories) :
                   AnyWordIn(ResponseCategories[i].words, question_lower)}
    IN  IF hit = {} THEN "default" ELSE ResponseCategories[MinOf(hit)].category

\* the first n elements of a list: list[:n]
FirstN(list, n) == SubSeq(list, 1, Min(n, Len(list)))

\* the database answer
DatabaseAnswer(data) ==
    LET db_info == Get(data, "generate_architecture_summary", EmptyDict)
        db_files == Get(db_info, "database_files", <<>>)
    IN  IF db_files # <<>> THEN <<[part |-> "database_found", files |-> db_files]>>
        ELSE <<[part |-> "database_none"]>>

\* the dependencies answer: at most 5 of each kind are listed
DependenciesAnswer(data) ==
    LET deps_info == Get(data, "analyze_dependencies", EmptyDict)
        total_deps == Get(deps_info, "total_deps", 0)
        python_deps == Get(deps_info, "python_deps", <<>>)
        node_deps == Get(deps_info, "node_deps", EmptyDict)
        nodes == Cardinality(DOMAIN node_deps)
    IN  <<[part |-> "dependencies_header", total_deps |-> total_deps]>>
        \o (IF python_deps # <<>>
            THEN <<[part |-> "python_packages", count |-> Len(python_deps),
                    listed |-> FirstN(python_deps, 5),
                    more |-> Max(Len(python_deps) - 5, 0)]>>
            ELSE <<>>)
        \o (IF nodes > 0
            THEN <<[part |-> "node_packages", count |-> nodes,
                    listed |-> Min(nodes, 5), more |-> Max(nodes - 5, 0)]>>
            ELSE <<>>)

\* issue['issue'].replace('_', ' ').title()
IssueTitle(issue) ==
    CASE issue = "hardcoded_passwords" -> "Hardcoded Passwords"
      [] issue = "api_keys" -> "Api Keys"
      [] issue = "sql_injection" -> "Sql Injection"
      [] issue = "eval_usage" -> "Eval Usage"
      [] issue = "exec_usage" -> "Exec Usage"
      [] issue = "shell_injection" -> "Shell Injection"
      [] issue = "weak_random" -> "Weak Random"
      [] issue = "debug_mode" -> "Debug Mode"

\* the number of issues the security answer lists
ListedIssues == 5

\* the lines of the answer for one issue
IssuePart(issue) ==
    [part |-> "issue", title |-> IssueTitle(issue.issue), file |-> issue.file,
     line |-> issue.line, code |-> issue.code, severity |-> issue.severity]

\* a security answer that lists every issue of the result
SecurityAnswerListsAll(data) ==
    LET security_info == Get(data, "find_security_issues", EmptyDict)
        total_issues == Get(security_info, "total_issues", 0)
        issues == Get(security_info, "issues", <<>>)
    IN  IF total_issues = 0 THEN <<[part |-> "security_ok"]>>
        ELSE <<[part |-> "security_header", total_issues |-> total_issues]>>
             \o [i \in 1..Len(issues) |-> IssuePart(issues[i])]
             \o <<[part |-> "recommendations"]>>

\* the security answer
SecurityAnswer(data) ==
    LET security_info == Get(data, "find_security_issues", EmptyDict)
        total_issues == Get(security_info, "total_issues", 0)
        issues == Get(security_info, "issues", <<>>)
        listed == FirstN(issues, ListedIssues)
    IN  IF total_issues = 0 THEN <<[part |-> "security_ok"]>>
        ELSE <<[part |-> "security_header", total_issues |-> total_issues]>>
             \o [i \in 1..Len(listed) |-> IssuePart(listed[i])]
             \o (IF Len(issues) > ListedIssues
                 THEN <<[part |-> "more_issues", n |-> Len(issues) - ListedIssues]>>
                 ELSE <<>>)
             \o <<[part |-> "recommendations"]>>

\* a size label whose first limit is inclusive
SizeLabelInclusive(total_lines) ==
    IF total_lines <= 1000 THEN "small"
    ELSE IF total_lines < 10000 THEN "medium" ELSE "large"

\* 'small' if total_lines < 1000 else 'medium' if total_lines < 10000 else 'large'
SizeLabel(total_lines) ==
    IF total_lines < 1000 THEN "small"
    ELSE IF total_lines < 10000 THEN "medium" ELSE "large"

\* 'low' if complexity < 10 else 'medium' if complexity < 50 else 'high'
ComplexityLabel(complexity) ==
    IF complexity < 10 THEN "low"
    ELSE IF complexity < 50 THEN "medium" ELSE "high"

\* the metrics answer
MetricsAnswer(data) ==
    LET metrics_info == Get(data, "analyze_code_metrics", EmptyDict)
        total_files == Get(metrics_info, "total_files", 0)
        total_lines == Get(metrics_info, "total_lines", 0)
        file_types == Get(metrics_info, "file_types", EmptyDict)
        complexity == Get(metrics_info, "complexity_estimate", 0)
    IN  <<[part |-> "metrics", total_files |-> total_files,
           total_lines |-> total_lines, complexity |-> complexity,
           file_types |-> Min(Cardinality(DOMAIN file_types), 5),
           size |-> SizeLabel(total_lines),
           complexity_label |-> ComplexityLabel(complexity)]>>

\* generate_basic_response(question, analysis_data)
GenerateBasicResponse(q, data) ==
    LET category == CategoryOf(Lower(q))
    IN  CASE category = "database" -> DatabaseAnswer(data)
          [] category = "dependencies" -> DependenciesAnswer(data)
          [] category = "security" -> SecurityAnswer(data)
          [] category = "metrics" -> MetricsAnswer(data)
          [] category = "default" ->
                <<[part |-> "default_dump", data |-> data]>>

\* a direct call of generate_basic_response on the question
BasicResponseCall ==
    /\ lastOp' = [op |-> "generate_basic_response", analysis_data |-> analysis_data]
    /\ reply' = Returns(GenerateBasicResponse(question, analysis_data))
    /\ calls' = <<>>
    /\ UNCHANGED <<registryVars, current_project_path, project_files, tmpCount,
                   inputVars, aiVars, pending>>

\* words of the questions: a keyword of each category, words that hold a
\* keyword inside them, and words that hold none
ResponseWords == {<<"D","A","T","A","B","A","S","E">>, <<"p","a","c","k","a","g","e","s">>, <<"u","n","s","a","f","e">>, <<"F","i","l","e","s">>, <<"m","e","t","a","d","a","t","a">>,
                  <<"h","e","l","l","o">>}

MaxResponseWords == 2

RECURSIVE ResponsePhrases(_)
ResponsePhrases(n) ==
    IF n = 0 THEN {}
    ELSE ResponseWords
         \cup {p \o <<" ">> \o w : p \in ResponsePhrases(n - 1), w \in ResponseWords}

ResponseQuestions == ResponsePhrases(MaxResponseWords) \cup {<<>>}

\* a security issue as find_security_issues records it
SampleIssue(i) ==
    [file |-> <<"a",".","p","y">>, line |-> i, issue |-> IF i % 2 = 1 THEN "eval_usage" ELSE "api_keys",
     code |-> <<"e","v","a","l","(">>, severity |-> IF i % 2 = 1 THEN "medium" ELSE "high"]

MaxSampleIssues == 7

\* results of analyze_code_metrics with the given totals
SampleMetrics(total_lines, complexity) ==
    [total_files |-> 3, total_lines |-> total_lines,
     file_types |-> [e \in {<<".","p","y">>} |-> 3], largest_files |-> <<>>,
     complexity_estimate |-> complexity]

\* results of the tools for an empty directory, and what agent_analyze records
\* for a tool that raised
EmptyDirectoryData ==
    [t \in {"generate_architecture_summary", "analyze_dependencies",
            "find_security_issues", "analyze_code_metrics"} |->
        CASE t = "generate_architecture_summary" -> GenerateArchitectureSummary(<<>>)
          [] t = "analyze_dependencies" -> EmptyResults
          [] t = "find_security_issues" -> FindSecurityIssues(<<>>)
          [] t = "analyze_code_metrics" -> AnalyzeCodeMetrics(<<>>)]

ErrorData ==
    [t \in {"generate_architecture_summary", "analyze_dependencies",
            "find_security_issues", "analyze_code_metrics"} |->
        [error |-> <<"failed", t>>]]

\* the analysis data of the calls: no result at all, results of an empty
\* directory, error records, a project with a database file, and metrics and
\* security results around the limits of the labels and of the listing
AnalysisDataChoices ==
    {EmptyDict, EmptyDirectoryData, ErrorData}
    \cup {[EmptyDirectoryData EXCEPT
              !["generate_architecture_summary"] =
                  GenerateArchitectureSummary(<<File(<<>>, <<"a","p","p",".","d","b">>, "none", <<>>)>>),
              !["analyze_dependencies"] =
                  [EmptyResults EXCEPT !.python_deps = <<<<"f","l","a","s","k">>>>, !.total_deps = 1]]}
    \cup {[EmptyDirectoryData EXCEPT
              !["analyze_code_metrics"] = SampleMetrics(total_lines, complexity)] :
            total_lines \in {500, 999, 1000, 9999, 10000},
            complexity \in {5, 9, 10, 49, 50}}
    \cup {[EmptyDirectoryData EXCEPT
              !["find_security_issues"] =
                  SecurityResult([i \in 1..n |-> SampleIssue(i)])] :
            n \in 1..MaxSampleIssues}

NextResponse == BasicResponseCall

InitResponse ==
    /\ InitRegistry
    /\ InitGlobals
    /\ question \in ResponseQuestions
    /\ project = <<>>
    /\ analysis_data \in AnalysisDataChoices

SpecResponse == InitResponse /\ [][NextResponse]_vars

-----------------------------------------------------------------------------
(* The AI service: configure_ai, call_ai_service and the two provider calls *)

\* bool(key) of an API key: None ("None") and '' are false
Truthy(key) == key \notin {"None", ""}

\* POST /api/ai/configure with JSON {service, api_key}; api_key "" stands also
\* for a request without api_key
ConfigureAi(service, api_key) ==
    /\ lastOp' = [op |-> "configure_ai", service |-> service, api_key |-> api_key]
    /\ calls' = <<>>
    /\ UNCHANGED <<registryVars, current_project_path, project_files, tmpCount,
                   inputVars, pending>>
    /\ IF service = "openai"
       THEN /\ OPENAI_API_KEY' = api_key
            /\ AI_SERVICE' = "openai"
            /\ UNCHANGED ANTHROPIC_API_KEY
       ELSE IF service = "anthropic"
       THEN /\ ANTHROPIC_API_KEY' = api_key
            /\ AI_SERVICE' = "anthropic"
            /\ UNCHANGED OPENAI_API_KEY
       ELSE IF service = "none"
       THEN /\ AI_SERVICE' = "none"
            /\ UNCHANGED <<OPENAI_API_KEY, ANTHROPIC_API_KEY>>
       ELSE UNCHANGED aiVars
    /\ IF service \in {"openai", "anthropic", "none"}
       THEN reply' = [status |-> 200, success |-> TRUE, service |-> AI_SERVICE',
                      has_api_key |-> Truthy(api_key)]
       ELSE reply' = ErrorResponse(400, <<"Invalid service">>)

\* what happens to the one requests.post of a provider call: a reply of status
\* 200 with the answer in it, a reply of another status, no reply in 30
\* seconds, no connection, a reply of status 200 that is no JSON, or JSON
\* without the keys of an answer
ProviderOutcomes == {"ok", "status", "timeout", "network", "not_json", "missing_keys"}

\* the requests.post of a provider call, as an entry of calls
Post(provider, key, outcome) ==
    [func |-> "requests.post", kwargs |-> [provider |-> provider, key |-> key],
     produced |-> outcome]

\* the string a provider call returns after its one request
ProviderAnswer(provider, outcome) ==
    CASE outcome = "ok" -> <<[part |-> "ai_answer", provider |-> provider]>>
      [] outcome = "status" -> <<[part |-> "api_error", provider |-> provider]>>
      [] OTHER -> <<[part |-> "call_error", provider |-> provider,
                     exception |-> outcome]>>

\* a call without its try: an exception of the request or of the reading of
\* the reply leaves it
CallOpenaiApiNoTry(outcome) ==
    [out |-> IF outcome \in {"ok", "status"}
             THEN Returns(ProviderAnswer("openai", outcome))
             ELSE Raises(outcome),
     invoked |-> <<Post("openai", OPENAI_API_KEY, outcome)>>]

\* call_openai_api(context): one request; every Exception becomes a string
CallOpenaiApi(outcome) ==
    [out |-> Returns(ProviderAnswer("openai", outcome)),
     invoked |-> <<Post("openai", OPENAI_API_KEY, outcome)>>]

\* call_anthropic_api(context): likewise
CallAnthropicApi(outcome) ==
    [out |-> Returns(ProviderAnswer("anthropic", outcome)),
     invoked |-> <<Post("anthropic", ANTHROPIC_API_KEY, outcome)>>]

\* call_ai_service(question, analysis_data, service): the first test reads
\* OPENAI_API_KEY whatever the service is
CallAiService(q, data, service, outcome) ==
    IF service = "none" \/ ~Truthy(OPENAI_API_KEY)
    THEN [out |-> Returns(GenerateBasicResponse(q, data)), invoked |-> <<>>]
    ELSE IF service = "openai" THEN CallOpenaiApi(outcome)
    ELSE IF service = "anthropic" THEN CallAnthropicApi(outcome)
    ELSE [out |-> Returns(GenerateBasicResponse(q, data)), invoked |-> <<>>]

\* generate_agent_response(question, results)
GenerateAgentResponse(q, results, outcome) ==
    CallAiService(q, results, AI_SERVICE, outcome)

\* a direct call of generate_agent_response on the question and the data
AgentResponseCall(outcome) ==
    LET r == GenerateAgentResponse(question, analysis_data, outcome)
    IN  /\ lastOp' = [op |-> "generate_agent_response"]
        /\ reply' = r.out
        /\ calls' = r.invoked
        /\ UNCHANGED <<registryVars, current_project_path, project_files, tmpCount,
                       inputVars, aiVars, pending>>

\* the value of AI_SERVICE != "none" and ((AI_SERVICE == "openai" and
\* OPENAI_API_KEY) or (AI_SERVICE == "anthropic" and ANTHROPIC_API_KEY)): and/or
\* give one of their operands, "False" is the Python False
IsConfigured ==
    LET a == IF AI_SERVICE = "openai" THEN OPENAI_API_KEY ELSE "False"
        b == IF AI_SERVICE = "anthropic" THEN ANTHROPIC_API_KEY ELSE "False"
    IN  IF AI_SERVICE = "none" THEN "False"
        ELSE IF a \notin {"None", "", "False"} THEN a ELSE b

\* GET /api/ai/status
AiStatus ==
    /\ lastOp' = [op |-> "ai_status"]
    /\ reply' = [status |-> 200, service |-> AI_SERVICE,
                 has_openai_key |-> Truthy(OPENAI_API_KEY),
                 has_anthropic_key |-> Truthy(ANTHROPIC_API_KEY),
                 is_configured |-> IsConfigured]
    /\ calls' = <<>>
    /\ UNCHANGED <<registryVars, current_project_path, project_files, tmpCount,
                   inputVars, aiVars, pending>>

ServiceChoices == {"openai", "anthropic", "none", "local"}

ApiKeyChoices == {"", "sk-1"}

NextAi ==
    \/ \E service \in ServiceChoices, api_key \in ApiKeyChoices :
          ConfigureAi(service, api_key)
    \/ \E outcome \in ProviderOutcomes : AgentResponseCall(outcome)
    \/ AiStatus

InitAi ==
    /\ InitRegistry
    /\ InitGlobals
    /\ question \in {<<"i","s"," ","i","t"," ","s","a","f","e">>, <<"h","e","l","l","o">>}
    /\ project = <<>>
    /\ analysis_data \in {EmptyDirectoryData, ErrorData}

SpecAi == InitAi /\ [][NextAi]_vars

-----------------------------------------------------------------------------
(* POST /api/agent/analyze                                                 *)

\* the loop of agent_analyze over tools_to_run: the registry runs each tool on
\* project_path; failing are the tools whose body raises in this request
RunTools(reg, tools_to_run, project_path, failing) ==
    [i \in 1..Len(tools_to_run) |->
        RegistryExecute(reg, tools_to_run[i],
                        [k \in {"project_path"} |-> project_path],
                        IF tools_to_run[i] \in failing THEN "error" ELSE "ok")]

\* the index of the one run of tool t
RunOf(tools_to_run, t) == CHOOSE i \in 1..Len(tools_to_run) : tools_to_run[i] = t

\* a results dict that has no entry for a tool that raised
ResultsOfDropsFailed(tools_to_run, runs, produced) ==
    [t \in {tools_to_run[i] : i \in {j \in 1..Len(tools_to_run) :
                                          runs[j].out.kind = "return"}} |->
        produced[t]]

\* the results dict of agent_analyze: the dict the tool returned (produced), or
\* {"error": str(e)}
ResultsOf(tools_to_run, runs, produced) ==
    [t \in {tools_to_run[i] : i \in 1..Len(tools_to_run)} |->
        IF runs[RunOf(tools_to_run, t)].out.kind = "return"
        THEN produced[t]
        ELSE [error |-> runs[RunOf(tools_to_run, t)].out.msg]]

\* POST /api/agent/analyze with JSON {question}; failing: the tools whose body
\* raises in this request; produced: the dict each other tool returns; outcome:
\* what happens to a request to the AI provider
AgentAnalyze(raw_question, failing, produced, outcome) ==
    /\ lastOp' = [op |-> "agent_analyze", question |-> raw_question,
                  failing |-> failing, produced |-> produced]
    /\ UNCHANGED <<registryVars, current_project_path, project_files, tmpCount,
                   inputVars, aiVars, pending>>
    /\ IF current_project_path = NoPath
       THEN /\ reply' = ErrorResponse(400, <<"No repository loaded">>)
            /\ calls' = <<>>
       ELSE \E q \in {Lower(Strip(raw_question))} :
            IF q = <<>>
            THEN /\ reply' = ErrorResponse(400, <<"Question is required">>)
                 /\ calls' = <<>>
            ELSE \E tools_to_run \in {ToolsToRun(q)} :
                 \E runs \in {RunTools(Registry, tools_to_run,
                                       current_project_path, failing)} :
                 \E results \in {ResultsOf(tools_to_run, runs, produced)} :
                 \E response \in {GenerateAgentResponse(q, results, outcome)} :
                    /\ calls' = Concat([i \in 1..Len(runs) |-> runs[i].invoked])
                                \o response.invoked
                    /\ reply' = IF response.out.kind = "return"
                                THEN [status |-> 200, success |-> TRUE,
                                      question |-> q, tools_used |-> tools_to_run,
                                      results |-> results,
                                      response |-> response.out.value]
                                ELSE ErrorResponse(500, <<"Internal Server Error">>)

\* the dict each analyzer returns for the files and the repository of a project
ProducedFor(files, repo) ==
    [t \in {AnalyzerNames[i] : i \in 1..Len(AnalyzerNames)} |->
        CASE t = "analyze_dependencies" -> AnalyzeDependencies(files).value
          [] t = "analyze_code_metrics" -> AnalyzeCodeMetrics(files)
          [] t = "find_security_issues" -> FindSecurityIssues(files)
          [] t = "analyze_git_history" -> AnalyzeGitHistory(repo).value
          [] t = "find_todos_and_fixmes" -> FindTodosAndFixmes(files)
          [] t = "generate_architecture_summary" -> GenerateArchitectureSummary(files)]

\* an empty directory that is no repository, and a repository of three files
ProducedChoices ==
    {ProducedFor(<<>>, Repository("not_a_repo", 0, 0)),
     ProducedFor(<<File(<<>>, <<"a",".","p","y">>, "none", <<"#"," ","T","O","D","O",":"," ","x","\n","r"," ","="," ","e","v","a","l","(","s",")","\n","d","e","f"," ","f","(",")",":"," ","p","a","s","s","\n">>),
                   File(<<>>, <<"a","p","p",".","d","b">>, "none", <<>>),
                   File(<<>>, <<"r","e","q","u","i","r","e","m","e","n","t","s",".","t","x","t">>, "none", <<"f","l","a","s","k","\n">>)>>,
                 Repository("repo", 2, 1))}

\* words the questions are made of: one keyword of each group, in mixed case,
\* words that hold a keyword inside them, and words that hold none
QuestionWords == {<<"D","e","p","e","n","d","e","n","c","i","e","s">>, <<"l","i","n","e","s">>, <<"S","E","C","U","R","I","T","Y">>, <<"c","o","m","m","i","t">>, <<"t","o","d","o">>,
                  <<"A","P","I">>, <<"p","i","p","e","l","i","n","e">>, <<"u","n","s","a","f","e">>, <<"h","e","l","l","o">>, <<"t","h","e","r","e">>}

MaxWords == 2       \* words joined into one question

\* word sequences of length 1..n joined by one space
RECURSIVE Phrases(_)
Phrases(n) ==
    IF n = 0 THEN {}
    ELSE QuestionWords
         \cup {p \o <<" ">> \o w : p \in Phrases(n - 1), w \in QuestionWords}

Questions ==
    Phrases(MaxWords)
    \cup {<<>>, <<" "," "," ">>, <<"h","e","l","l","o"," ","t","h","e","r","e">>,
          <<"I","s"," ","t","h","e","r","e"," ","a","n","y"," ","d","a","t","a","b","a","s","e"," ","b","e","i","n","g"," ","u","s","e","d"," ","i","n"," ","t","h","i","s"," ","p","r","o","j","e","c","t","?">>,
          <<"f","i","l","e","s"," ","o","f"," ","t","h","e"," ","l","a","s","t"," ","c","o","m","m","i","t">>,
          <<"W","h","a","t"," ","a","r","e"," ","t","h","e"," ","d","e","p","e","n","d","e","n","c","i","e","s"," ","a","n","d"," ","s","e","c","u","r","i","t","y"," ","i","s","s","u","e","s","?">>,
          <<" ","I","s"," ","t","h","e"," ","A","P","I"," ","e","n","t","r","y"," ","S","A","F","E","?"," ","n","o","t","e"," ","t","h","e"," ","c","o","m","m","i","t"," ","h","i","s","t","o","r","y"," ","a","n","d"," ","f","i","l","e"," ","s","i","z","e",","," ","t","h","e","n"," ","p","i","p"," ">>}

FailingChoices == {{}, {"analyze_dependencies"},
                   {AnalyzerNames[i] : i \in 1..Len(AnalyzerNames)}}

\* the agent endpoint on the local project
NextRouter ==
    \/ \E local_exists \in BOOLEAN : CloneRepo(<<"l","o","c","a","l">>, local_exists, TRUE)
    \/ \E failing \in FailingChoices, produced \in ProducedChoices :
          AgentAnalyze(question, failing, produced, "ok")

InitRouter ==
    /\ InitRegistry
    /\ InitGlobals
    /\ question \in Questions
    /\ project = <<>>
    /\ analysis_data = EmptyDict

SpecRouter == InitRouter /\ [][NextRouter]_vars

\* the agent endpoint asked about the security of the local project, whose
\* files are those of project
NextSecurityAnswer ==
    \/ CloneRepo(<<"l","o","c","a","l">>, TRUE, TRUE)
    \/ AgentAnalyze(question, {}, ProducedFor(project, Repository("not_a_repo", 0, 0)),
                    "ok")

InitSecurityAnswer ==
    /\ InitRegistry
    /\ InitGlobals
    /\ question = <<"I","s"," ","i","t"," ","s","e","c","u","r","e","?">>
    /\ project \in SecurityProjects
    /\ analysis_data = EmptyDict

SpecSecurityAnswer == InitSecurityAnswer /\ [][NextSecurityAnswer]_vars

-----------------------------------------------------------------------------
(* POST /api/agent/analyze served while other requests are served: the     *)
(* handler in steps, one for the lines before the loop, one for each       *)
(* iteration of the loop, one for the lines after it. Every step reads the *)
(* globals as they are when it is taken.                                   *)

\* lines 518-550: the tests of the request and the choice of the tools
AgentBegin(raw_question) ==
    /\ ~pending.active
    /\ calls' = <<>>
    /\ UNCHANGED <<registryVars, current_project_path, project_files, tmpCount,
                   inputVars, aiVars>>
    /\ IF current_project_path = NoPath
       THEN /\ reply' = ErrorResponse(400, <<"No repository loaded">>)
            /\ lastOp' = [op |-> "agent_analyze_refused"]
            /\ UNCHANGED pending
       ELSE IF Lower(Strip(raw_question)) = <<>>
       THEN /\ reply' = ErrorResponse(400, <<"Question is required">>)
            /\ lastOp' = [op |-> "agent_analyze_refused"]
            /\ UNCHANGED pending
       ELSE /\ pending' = [active |-> TRUE,
                           question |-> Lower(Strip(raw_question)),
                           tools_to_run |-> ToolsToRun(Lower(Strip(raw_question))),
                           next |-> 1, results |-> EmptyDict, invoked |-> <<>>,
                           started_on |-> current_project_path]
            /\ lastOp' = [op |-> "agent_analyze_begin"]
            /\ UNCHANGED reply

\* what one iteration of the loop does to the request when the tool is run
\* on project_path
AfterTool(project_path, failing, produced) ==
    LET tool_name == pending.tools_to_run[pending.next]
        run == RegistryExecute(Registry, tool_name,
                               [k \in {"project_path"} |-> project_path],
                               IF tool_name \in failing THEN "error" ELSE "ok")
    IN  [pending EXCEPT
            !.next = @ + 1,
            !.results = DictPut(@, tool_name,
                                IF run.out.kind = "return" THEN produced[tool_name]
                                ELSE [error |-> run.out.msg]),
            !.invoked = @ \o run.invoked]

\* an iteration that runs the tool on the project root the request began with
AgentStepOnStartRoot(failing, produced) ==
    /\ pending.active
    /\ pending.next <= Len(pending.tools_to_run)
    /\ pending' = AfterTool(pending.started_on, failing, produced)
    /\ lastOp' = [op |-> "agent_analyze_tool"]
    /\ UNCHANGED <<registryVars, current_project_path, project_files, tmpCount,
                   inputVars, aiVars, reply, calls>>

\* lines 554-559, one iteration: the tool is run on current_project_path
AgentStep(failing, produced) ==
    /\ pending.active
    /\ pending.next <= Len(pending.tools_to_run)
    /\ pending' = AfterTool(current_project_path, failing, produced)
    /\ lastOp' = [op |-> "agent_analyze_tool"]
    /\ UNCHANGED <<registryVars, current_project_path, project_files, tmpCount,
                   inputVars, aiVars, reply, calls>>

\* lines 562-570: the answer and the response
AgentEnd(outcome) ==
    /\ pending.active
    /\ pending.next > Len(pending.tools_to_run)
    /\ pending' = Idle
    /\ lastOp' = [op |-> "agent_analyze_end", started_on |-> pending.started_on]
    /\ UNCHANGED <<registryVars, current_project_path, project_files, tmpCount,
                   inputVars, aiVars>>
    /\ \E response \in {GenerateAgentResponse(pending.question, pending.results,
                                              outcome)} :
          /\ calls' = pending.invoked \o response.invoked
          /\ reply' = IF response.out.kind = "return"
                      THEN [status |-> 200, success |-> TRUE,
                            question |-> pending.question,
                            tools_used |-> pending.tools_to_run,
                            results |-> pending.results,
                            response |-> response.out.value]
                      ELSE ErrorResponse(500, <<"Internal Server Error">>)

\* one agent request at a time, with load-repo requests served between its
\* steps
NextConcurrent ==
    \/ \E raw_url \in {<<"l","o","c","a","l">>, <<"h","t","t","p","s",":","/","/","g","i","t","h","u","b",".","c","o","m","/","a","/","b">>},
          local_exists \in BOOLEAN, clone_ok \in BOOLEAN :
          CloneRepo(raw_url, local_exists, clone_ok)
    \/ AgentBegin(question)
    \/ \E failing \in FailingChoices, produced \in ProducedChoices :
          AgentStep(failing, produced)
    \/ AgentEnd("ok")

InitConcurrent ==
    /\ InitRegistry
    /\ InitGlobals
    /\ question \in {<<"D","e","p","e","n","d","e","n","c","i","e","s"," ","S","E","C","U","R","I","T","Y"," ","c","o","m","m","i","t">>, <<"h","e","l","l","o">>, <<" ">>}
    /\ project = <<>>
    /\ analysis_data = EmptyDict

SpecConcurrent == InitConcurrent /\ [][NextConcurrent]_vars

-----------------------------------------------------------------------------
(* GET /api/file-content                                                   *)
(*                                                                         *)
(* Paths are texts as the program holds them. The file system resolves a   *)
(* text to the sequence of the names from the root directory down, taking  *)
(* a relative path from the working directory of the server.               *)

\* s.split(sep) for a separator of one character
RECURSIVE SplitOn(_, _)
SplitOn(s, sep) ==
    LET at == {j \in 1..Len(s) : s[j] = sep}
    IN  IF at = {} THEN <<s>>
        ELSE <<SubSeq(s, 1, MinOf(at) - 1)>>
             \o SplitOn(SubSeq(s, MinOf(at) + 1, Len(s)), sep)

\* the names a sequence of path components leads to from the names stack:
\* '' and '.' stay, '..' goes up
RECURSIVE Walk(_, _)
Walk(stack, components) ==
    IF components = <<>> THEN stack
    ELSE LET c == Head(components)
         IN  Walk(IF c \in {<<>>, <<".">>} THEN stack
                  ELSE IF c = <<".",".">>
                  THEN SubSeq(stack, 1, Len(stack) - 1)
                  ELSE Append(stack, c),
                  Tail(components))

\* the working directory of the server
WorkingDirectory == <<<<"s","r","v">>, <<"a","p","p">>>>

\* the place in the file system the path text names
Resolve(path) ==
    Walk(IF StartsWith(path, <<"/">>) THEN <<>> ELSE WorkingDirectory,
         SplitOn(path, "/"))

\* the text of current_project_path: './my_project' (line 444) or the
\* directory tempfile.mkdtemp made (line 453)
PathText(path) ==
    IF path = LocalPath THEN <<".","/","m","y","_","p","r","o","j","e","c","t">>
    ELSE <<"/","t","m","p","/","c","o","d","e","b","a","s","e","_","q","a","_">> \o <<<<"0","1","2","3","4","5","6","7","8","9">>[path[2] + 1]>>

\* os.path.join(a, b)
OsPathJoin(a, b) ==
    IF StartsWith(b, <<"/">>) THEN b
    ELSE IF a = <<>> \/ EndsWith(a, <<"/">>) THEN a \o b
    ELSE a \o <<"/">> \o b

\* os.path.basename(p)
Basename(p) == LET parts == SplitOn(p, "/") IN parts[Len(parts)]

\* str(Path(directory) / rel): pathlib drops '.' and empty components, keeps
\* '..'
TreeEntryPath(directory, rel) ==
    LET kept == SelectSeq(SplitOn(directory, "/"), LAMBDA c : c \notin {<<>>, <<".">>})
    IN  (IF StartsWith(directory, <<"/">>) THEN <<"/">> ELSE <<>>)
        \o Join(kept, <<"/">>) \o <<"/">> \o rel

\* the files of a loaded project, relative to its root
ProjectRels == {<<"a",".","p","y">>, <<"s","r","c","/","b",".","p","y">>}

\* the regular files of the file system: those of ./my_project, those of each
\* directory a clone was made into, and files outside of them
FileSystem ==
    {[at |-> Resolve(<<".","/","m","y","_","p","r","o","j","e","c","t","/">> \o rel), content |-> <<"l","o","c","a","l"," ">> \o rel] :
        rel \in ProjectRels}
    \cup {[at |-> Resolve(PathText(TempDir(n)) \o <<"/">> \o rel),
           content |-> <<"c","l","o","n","e","d"," ">> \o rel] : n \in 1..9, rel \in ProjectRels}
    \cup {[at |-> Resolve(<<"/","s","r","v","/","a","p","p","/","s","e","c","r","e","t",".","t","x","t">>), content |-> <<"s","e","c","r","e","t">>],
          [at |-> Resolve(<<"/","e","t","c","/","p","a","s","s","w","d">>), content |-> <<"r","o","o","t">>]}

\* open(full_path, 'r', encoding='utf-8').read()
ReadFile(full_path) ==
    IF \E f \in FileSystem : f.at = Resolve(full_path)
    THEN Returns((CHOOSE f \in FileSystem : f.at = Resolve(full_path)).content)
    ELSE Raises("OSError")

\* GET /api/file-content?path=file_path; file_path <<>> stands also for a
\* request without path
GetFileContent(file_path) ==
    /\ lastOp' = [op |-> "get_file_content", path |-> file_path]
    /\ calls' = <<>>
    /\ UNCHANGED <<registryVars, current_project_path, project_files, tmpCount,
                   inputVars, aiVars, pending>>
    /\ IF file_path = <<>> \/ current_project_path = NoPath
       THEN reply' = ErrorResponse(400, <<"Invalid file path">>)
       ELSE LET full_path == OsPathJoin(PathText(current_project_path), file_path)
                read == ReadFile(full_path)
            IN  IF ~StartsWith(full_path, PathText(current_project_path))
                THEN reply' = ErrorResponse(403, <<"Access denied">>)
                ELSE IF read.kind = "return"
                THEN reply' = [status |-> 200, success |-> TRUE,
                               content |-> read.value,
                               file_name |-> Basename(file_path)]
                ELSE reply' = ErrorResponse(500, <<"Error reading file">>)

\* the paths of the file entries of the tree get_file_tree makes of directory
TreeFilePaths(directory) ==
    {TreeEntryPath(PathText(directory), rel) : rel \in ProjectRels}

\* paths of requests: none, the paths of the entries of the trees, and paths
\* made of a way out of or into a directory and the name of a file
RequestPaths ==
    {<<>>}
    \cup TreeFilePaths(LocalPath)
    \cup UNION {TreeFilePaths(TempDir(n)) : n \in 1..MaxClones}
    \cup {pre \o rel : pre \in {<<>>, <<".","/">>, <<".",".","/">>, <<"s","r","c","/",".",".","/">>, <<".",".","/",".",".","/",".",".","/">>, <<"/">>},
                       rel \in {<<"a",".","p","y">>, <<"s","r","c","/","b",".","p","y">>, <<"s","e","c","r","e","t",".","t","x","t">>, <<"e","t","c","/","p","a","s","s","w","d">>,
                                <<"s","r","c">>}}

\* the file endpoints after loads that succeed
NextFileContent ==
    \/ \E raw_url \in {<<"l","o","c","a","l">>, <<"h","t","t","p","s",":","/","/","g","i","t","h","u","b",".","c","o","m","/","a","/","b">>} :
          CloneRepo(raw_url, TRUE, TRUE)
    \/ GetFileTreeApi
    \/ \E file_path \in RequestPaths : GetFileContent(file_path)

SpecFileContent == Init /\ [][NextFileContent]_vars

-----------------------------------------------------------------------------
(* Properties of the registry                                              *)

\* C1: execute_tool with a name that is not registered raises the not-found
\* error naming it, invokes no callable and leaves tools and tool_descriptions
\* as they were, after any sequence of register_tool calls.
C1_UnknownToolFails ==
    [][(lastOp'.op = "execute_tool" /\ lastOp'.name \notin DOMAIN tools)
        => /\ reply' = NotFoundError(lastOp'.name)
           /\ reply'.kind = "raise"
           /\ calls' = <<>>
           /\ tools' = tools
           /\ tool_descriptions' = tool_descriptions]_vars

C1_Witness ==
    /\ lastOp.op = "execute_tool"
    /\ lastOp.name \notin DOMAIN tools
    /\ Len(regLog) > Len(ImportRegistrations)
    /\ reply = NotFoundError(lastOp.name)

\* the position in regLog of the most recent registration of name
LastRegistration(name) ==
    CHOOSE i \in 1..Len(regLog) :
        /\ regLog[i].name = name
        /\ \A j \in (i + 1)..Len(regLog) : regLog[j].name # name

RegisteredNames == {regLog[i].name : i \in 1..Len(regLog)}

\* C2: after any sequence of register_tool calls the registry holds, for each
\* registered name and for no other, one callable and one descriptor, both of
\* the most recent registration of that name; list_tools gives these
\* descriptors and execute_tool dispatches to that callable.
C2_LatestRegistrationWins ==
    /\ DOMAIN tools = RegisteredNames
    /\ DOMAIN tool_descriptions = RegisteredNames
    /\ \A name \in RegisteredNames :
          LET r == regLog[LastRegistration(name)]
          IN  /\ tools[name] = r.func
              /\ tool_descriptions[name].description = r.description
              /\ tool_descriptions[name].requires_api_key = r.requires_api_key
              /\ tool_descriptions[name].parameters =
                    (IF r.parameters.given THEN r.parameters.dict ELSE EmptyDict)
    /\ lastOp.op = "list_tools" => reply.tools = tool_descriptions
    /\ (lastOp.op = "execute_tool" /\ lastOp.name \in RegisteredNames)
          => /\ Len(calls) = 1
             /\ calls[1].func = regLog[LastRegistration(lastOp.name)].func

C2_Witness ==
    /\ lastOp.op = "execute_tool"
    /\ \E i, j \in 1..Len(regLog) :
          /\ i < j
          /\ regLog[i].name = lastOp.name
          /\ regLog[j].name = lastOp.name
          /\ regLog[i].func # regLog[j].func
          /\ regLog[i].description # regLog[j].description
          /\ j = LastRegistration(lastOp.name)
          /\ calls # <<>>
          /\ calls[1].func = regLog[j].func
          /\ tool_descriptions[lastOp.name].description = regLog[j].description

\* C3: for a registered name execute_tool invokes the stored callable with the
\* caller's keywords and gives its caller exactly what the callable produced,
\* return value or exception; at POST /api/tools/execute an exception of the
\* callable becomes the 500 tool-execution failure response and the current
\* project path and file list stay as they were.
C3_CallableResultPropagates ==
    [][/\ (lastOp'.op = "execute_tool" /\ lastOp'.name \in DOMAIN tools)
          => /\ Len(calls') = 1
             /\ calls'[1].func = tools[lastOp'.name]
             /\ calls'[1].kwargs = lastOp'.kwargs
             /\ reply' = calls'[1].produced
       /\ (lastOp'.op = "http_execute_tool" /\ calls' # <<>>)
          => /\ Len(calls') = 1
             /\ calls'[1].func = tools[lastOp'.name]
             /\ current_project_path' = current_project_path
             /\ project_files' = project_files
             /\ IF calls'[1].produced.kind = "raise"
                THEN reply' = ErrorResponse(500, <<"Error executing tool">>
                                                    \o calls'[1].produced.msg)
                ELSE /\ reply'.status = 200
                     /\ reply'.result = calls'[1].produced.value]_vars

C3_Witness ==
    /\ lastOp.op = "http_execute_tool"
    /\ current_project_path # NoPath
    /\ project_files # <<>>
    /\ Len(calls) = 1
    /\ calls[1].produced.kind = "raise"
    /\ calls[1].produced.type = "RuntimeError"
    /\ reply.status = 500

-----------------------------------------------------------------------------
(* Properties of the intent router                                         *)

\* the question of the last agent-analyze request, as the router reads it
RoutedQuestion == reply.question

\* the keyword group of tool has a word that occurs in q
GroupMatches(tool, q) ==
    \E i \in 1..Len(RouterGroups) :
        RouterGroups[i].tool = tool /\ \E w \in RouterGroups[i].words : Contains(w, q)

NoGroupMatches(q) ==
    \A i \in 1..Len(RouterGroups) : ~GroupMatches(RouterGroups[i].tool, q)

Routed == lastOp.op = "agent_analyze" /\ reply.status = 200

ToolsUsed == {reply.tools_used[i] : i \in 1..Len(reply.tools_used)}

\* C4: every answered agent-analyze request has a non-empty tool selection,
\* and a question that matches none of the six keyword groups selects the
\* default pair analyze_code_metrics, analyze_dependencies and nothing else.
C4_RouterNonEmptyAndDefault ==
    Routed =>
        /\ reply.question = Lower(Strip(lastOp.question))
        /\ reply.tools_used # <<>>
        /\ NoGroupMatches(RoutedQuestion)
              => /\ ToolsUsed = {"analyze_code_metrics", "analyze_dependencies"}
                 /\ Len(reply.tools_used) = 2

C4_Witness ==
    /\ Routed
    /\ lastOp.question = <<"h","e","l","l","o"," ","t","h","e","r","e">>
    /\ NoGroupMatches(RoutedQuestion)
    /\ ToolsUsed = {"analyze_code_metrics", "analyze_dependencies"}

\* the position of tool's keyword group in the handler
GroupIndex(tool) == CHOOSE i \in 1..Len(RouterGroups) : RouterGroups[i].tool = tool

\* C5: the keyword groups are tested independently: an analyzer is selected
\* if and only if a keyword of its group occurs in the lower-cased question
\* (or no group matches and it is one of the default pair), each selected
\* analyzer appears once, and matched analyzers appear in the group order.
C5_GroupsIndependent ==
    Routed =>
        /\ reply.question = Lower(Strip(lastOp.question))
        /\ \A i \in 1..Len(RouterGroups) :
              LET tool == RouterGroups[i].tool
              IN  tool \in ToolsUsed
                    <=> \/ GroupMatches(tool, RoutedQuestion)
                        \/ /\ NoGroupMatches(RoutedQuestion)
                           /\ tool \in {"analyze_code_metrics", "analyze_dependencies"}
        /\ ToolsUsed \subseteq {RouterGroups[i].tool : i \in 1..Len(RouterGroups)}
        /\ Cardinality(ToolsUsed) = Len(reply.tools_used)
        /\ ~NoGroupMatches(RoutedQuestion)
              => \A i, j \in 1..Len(reply.tools_used) :
                    i < j => GroupIndex(reply.tools_used[i])
                               < GroupIndex(reply.tools_used[j])

C5_Witness ==
    /\ Routed
    /\ lastOp.question = <<"W","h","a","t"," ","a","r","e"," ","t","h","e"," ","d","e","p","e","n","d","e","n","c","i","e","s"," ","a","n","d"," ","s","e","c","u","r","i","t","y"," ","i","s","s","u","e","s","?">>
    /\ reply.tools_used = <<"analyze_dependencies", "find_security_issues">>

-----------------------------------------------------------------------------
(* Properties of the analysis tools                                        *)

\* the places (bucket, position) of the result where path is listed
PlacesOf(summary, path) ==
    {<<b, p>> \in (DOMAIN summary) \X (1..Len(project)) :
        p <= Len(summary[b]) /\ summary[b][p] = path}

\* C8: generate_architecture_summary lists every walked file in at most one
\* bucket, the bucket of the first rule the file name matches in the order
\* entry point, api/route, database, config, test, static; a file that matches
\* no rule is listed in no bucket, and nothing else is listed.
C8_FirstMatchingBucket ==
    lastOp.op = "generate_architecture_summary" =>
        LET summary == reply.value
        IN  /\ DOMAIN summary = {Buckets[k] : k \in 1..Len(Buckets)}
            /\ \A i \in 1..Len(project) :
                  LET file == project[i].name
                      places == PlacesOf(summary, RelPath(project[i]))
                  IN  /\ Cardinality(places) <= 1
                      /\ \A k \in 1..Len(Buckets) :
                            (RuleMatches(k, file) /\ \A j \in 1..(k - 1) : ~RuleMatches(j, file))
                               => /\ Cardinality(places) = 1
                                  /\ \A pl \in places : pl[1] = Buckets[k]
                      /\ (\A k \in 1..Len(Buckets) : ~RuleMatches(k, file)) => places = {}
            /\ \A b \in DOMAIN summary : \A p \in 1..Len(summary[b]) :
                  \E i \in 1..Len(project) : summary[b][p] = RelPath(project[i])

C8_Witness ==
    /\ lastOp.op = "generate_architecture_summary"
    /\ \E i, j \in 1..Len(project) :
          /\ project[i].name = <<"t","e","s","t","_","a","p","i",".","p","y">>
          /\ RuleMatches(2, project[i].name) /\ RuleMatches(5, project[i].name)
          /\ reply.value["api_endpoints"] = <<RelPath(project[i])>>
          /\ reply.value["test_files"] = <<>>
          /\ project[j].name = <<"R","E","A","D","M","E",".","m","d">>
          /\ PlacesOf(reply.value, RelPath(project[j])) = {}

\* C6: in every result of find_security_issues the counts of
\* severity_breakdown sum to total_issues, total_issues is the number of all
\* matches found, and issues is the first min(20, total_issues) of them in the
\* order found: the cap applies to the list alone.
C6_SecurityCountsUncapped ==
    lastOp.op = "find_security_issues" =>
        LET r == reply.value
            all == SecurityIssues(project)
            counts == r.severity_breakdown
        IN  /\ r.total_issues = Len(all)
            /\ r.total_issues =
                  SumSeq([i \in 1..Len(project) |->
                            IF EndsWithAny(project[i].name, SecuritySuffixes)
                               /\ project[i].fault # "read"
                            THEN SumSeq([k \in 1..Len(SecurityPatterns) |->
                                           Len(FindIter(SecurityPatterns[k].pattern,
                                                        project[i].content))])
                            ELSE 0])
            /\ DOMAIN counts \subseteq {"high", "medium"}
            /\ (IF "high" \in DOMAIN counts THEN counts["high"] ELSE 0)
                + (IF "medium" \in DOMAIN counts THEN counts["medium"] ELSE 0)
                  = r.total_issues
            /\ Len(r.issues) = Min(20, r.total_issues)
            /\ r.issues = SubSeq(all, 1, Len(r.issues))

C6_Witness ==
    /\ lastOp.op = "find_security_issues"
    /\ reply.value.total_issues > 20
    /\ Len(reply.value.issues) = 20
    /\ DOMAIN reply.value.severity_breakdown = {"high", "medium"}
    /\ reply.value.severity_breakdown["medium"] > 20
    /\ reply.value.severity_breakdown["high"] = 2

\* a line is TODO-marked: somewhere in it a comment token #, // or /* is
\* followed, after optional white space, by TODO in any case
TodoMarked(line) ==
    LET mark == Pattern([t \in 1..Len(CommentTokens) |->
                            <<Lit(CommentTokens[t]), Spaces, Lit(<<"T","O","D","O">>)>>],
                        TRUE, FALSE)
    IN  \E i \in 1..Len(line) : EndsAt(mark, line, i) # {}

\* the line numbers of the entries of todos for the file f, in list order
TodoLinesOf(f) ==
    LET entries == SelectSeq(reply.value.todos, LAMBDA e : e.file = RelPath(f))
    IN  [j \in 1..Len(entries) |-> entries[j].line]

\* the numbers of the TODO-marked lines of f, ascending
RECURSIVE MarkedFrom(_, _)
MarkedFrom(lines, i) ==
    IF i > Len(lines) THEN <<>>
    ELSE (IF TodoMarked(lines[i]) THEN <<i>> ELSE <<>>) \o MarkedFrom(lines, i + 1)

\* C7: for every recognized source file that is read, the todos list has
\* exactly one entry per TODO-marked line, with its 1-based line number, for any
\* number of such lines, those where nothing follows the marker included.
\* The code does not satisfy this: a line that ends with the marker adds no
\* entry.
C7_EveryMarkedLineReported ==
    lastOp.op = "find_todos_and_fixmes" =>
        \A i \in 1..Len(project) :
            (EndsWithAny(project[i].name, TaskSuffixes) /\ project[i].fault = "none")
            => TodoLinesOf(project[i]) = MarkedFrom(SplitLines(project[i].content), 1)

\* a source file whose first line is the bare marker, followed by 25 TODO
\* lines: 25 entries are reported for 26 marked lines
C7_Witness ==
    /\ lastOp.op = "find_todos_and_fixmes"
    /\ Len(project) = 1
    /\ project[1].name = <<"t",".","p","y">>
    /\ SplitLines(project[1].content)[1] = <<"#"," ","T","O","D","O">>
    /\ Len(MarkedFrom(SplitLines(project[1].content), 1)) = 26
    /\ Len(reply.value.todos) = 25
    /\ reply.value.todos[1].line = 2

\* a file analyze_code_metrics opens: not hidden, of an allow-listed extension
MetricsCandidate(f) ==
    ~StartsWith(f.name, <<".">>) /\ Lower(Splitext1(f.name)) \in MetricsExtensions

\* the project without the files analyze_code_metrics skips on an exception
WithoutSkipped(files) ==
    SelectSeq(files, LAMBDA f : ~(MetricsCandidate(f) /\ f.fault # "none"))

\* C9: total_files is the number of allow-listed files successfully read; a
\* file skipped at any step of its processing (not readable, or failing after
\* it was read) contributes to none of total_files, total_lines, file_types,
\* complexity_estimate and largest_files, so the result is the one of the
\* project without the skipped files; the counts of file_types sum to
\* total_files.
\* The code does not satisfy this: a file whose size cannot be taken after it
\* was read is skipped, yet counted in total_files, total_lines and file_types.
C9_SkippedFileContributesNothing ==
    lastOp.op = "analyze_code_metrics" =>
        LET r == reply.value
        IN  /\ r.total_files =
                  Cardinality({i \in 1..Len(project) :
                                  MetricsCandidate(project[i])
                                  /\ project[i].fault # "read"})
            /\ r = AnalyzeCodeMetrics(WithoutSkipped(project))
            /\ \E order \in [1..Cardinality(DOMAIN r.file_types) -> DOMAIN r.file_types] :
                  /\ \A x \in DOMAIN r.file_types : \E i \in DOMAIN order : order[i] = x
                  /\ SumSeq([i \in DOMAIN order |-> r.file_types[order[i]]])
                        = r.total_files

\* a.py is read and measured, B.PY is read but its size cannot be taken: both
\* are counted, only a.py is among the largest files
C9_Witness ==
    /\ lastOp.op = "analyze_code_metrics"
    /\ Len(project) = 2
    /\ project[1].name = <<"a",".","p","y">> /\ project[1].fault = "none"
    /\ project[2].name = <<"B",".","P","Y">> /\ project[2].fault = "stat"
    /\ reply.value.total_files = 2
    /\ reply.value.total_lines = 4
    /\ reply.value.file_types[<<".","p","y">>] = 2
    /\ Len(reply.value.largest_files) = 1
    /\ reply.value.complexity_estimate = 1

\* the number of lines of the text of the manifest name that are in entries,
\* 0 when the manifest is not there
EntryLines(name, entries) ==
    LET found == RootFiles(project, name)
        lines == IF found = <<>> THEN <<>> ELSE ReadLines(found[1].content)
    IN  Cardinality({i \in 1..Len(lines) : \E e \in entries : lines[i] = e \o <<"\n">>})

\* the manifest name is not there, or is read and each of its lines is in lines
LinesAmong(name, lines) ==
    LET found == RootFiles(project, name)
    IN  found = <<>>
        \/ /\ found[1].fault = "none"
           /\ \A i \in 1..Len(ReadLines(found[1].content)) :
                 \E e \in lines : ReadLines(found[1].content)[i] = e \o <<"\n">>

\* the package manifests package.json is the text of
PackageOf == {m \in PackageManifests :
                RootFiles(project, <<"p","a","c","k","a","g","e",".","j","s","o","n">>) # <<>>
                /\ RootFiles(project, <<"p","a","c","k","a","g","e",".","j","s","o","n">>)[1].fault = "none"
                /\ RootFiles(project, <<"p","a","c","k","a","g","e",".","j","s","o","n">>)[1].content = RenderPackageJson(m)}

\* the names of the merged mappings of a package manifest
MergedNames(m) ==
    {m.dependencies.pairs[i][1] : i \in 1..Len(m.dependencies.pairs)}
    \cup {m.devDependencies.pairs[i][1] : i \in 1..Len(m.devDependencies.pairs)}

\* every manifest that is there is read and holds valid entries and lines to
\* skip only
ManifestsWellFormed ==
    /\ LinesAmong(<<"r","e","q","u","i","r","e","m","e","n","t","s",".","t","x","t">>, RequirementEntries \cup RequirementSkips)
    /\ LinesAmong(<<"P","i","p","f","i","l","e">>, PipfileEntries \cup PipfileSkips)
    /\ RootFiles(project, <<"p","a","c","k","a","g","e",".","j","s","o","n">>) = <<>> \/ PackageOf # {}

\* C10: for manifests with valid entries and no malformed lines,
\* analyze_dependencies returns total_deps = the number of entry lines of
\* requirements.txt (blank lines and '#' lines skipped) + the number of names of
\* the merged dependencies and devDependencies of package.json + the number of
\* key = value lines of the Pipfile, each counted 0 when the manifest is not
\* there; so total_deps is N for one manifest and the sum for several.
C10_TotalDepsCountsEntries ==
    (lastOp.op = "analyze_dependencies" /\ ManifestsWellFormed) =>
        /\ reply.kind = "return"
        /\ reply.value.total_deps =
              EntryLines(<<"r","e","q","u","i","r","e","m","e","n","t","s",".","t","x","t">>, RequirementEntries)
              + SumSeq([i \in 1..Len(RootFiles(project, <<"p","a","c","k","a","g","e",".","j","s","o","n">>)) |->
                          Cardinality(MergedNames(CHOOSE m \in PackageOf : TRUE))])
              + EntryLines(<<"P","i","p","f","i","l","e">>, PipfileEntries)
        /\ Len(reply.value.python_deps) + Cardinality(DOMAIN reply.value.node_deps)
              = reply.value.total_deps

\* the three manifests are there: an entry and a comment line in
\* requirements.txt, four entries with three names in package.json, an entry in
\* the Pipfile; total_deps is 1 + 3 + 1
C10_Witness ==
    /\ lastOp.op = "analyze_dependencies"
    /\ ManifestsWellFormed
    /\ Len(project) = 3
    /\ EntryLines(<<"r","e","q","u","i","r","e","m","e","n","t","s",".","t","x","t">>, RequirementEntries) = 1
    /\ Len(ReadLines(project[1].content)) = 2
    /\ \E m \in PackageOf : Len(m.dependencies.pairs) + Len(m.devDependencies.pairs) = 4
    /\ EntryLines(<<"P","i","p","f","i","l","e">>, PipfileEntries) = 1
    /\ reply.kind = "return"
    /\ reply.value.total_deps = 5

\* C11: analyze_git_history on a path that is no working copy, or whose
\* history cannot be read, returns a dict with the key error; it raises in no
\* case.
C11_GitFailureBecomesError ==
    lastOp.op = "analyze_git_history" =>
        /\ reply.kind = "return"
        /\ project.state # "repo" => DOMAIN reply.value = {"error"}

C11_Witness ==
    /\ lastOp.op = "analyze_git_history"
    /\ project.state = "not_a_repo"
    /\ reply.kind = "return"
    /\ "error" \in DOMAIN reply.value

\* the dict that counts the commits of window by author
AuthorsOf(window) ==
    [a \in {window[i].author : i \in 1..Len(window)} |->
        Cardinality({i \in 1..Len(window) : window[i].author = a})]

\* C12: for a history of more than 50 commits, newest first, the author
\* counts, the counts by month and the file-change counts are those of the 50
\* most recent commits, recent_commits holds the 10 most recent commits, and
\* total_commits is the length of the whole history.
\* The code does not satisfy this: commits[-50:] of a newest-first list is the
\* 50 oldest commits, and recent_commits is the first 10 of those.
C12_FiftyMostRecent ==
    (lastOp.op = "analyze_git_history" /\ project.state = "repo"
     /\ Len(project.commits) > 50) =>
        LET r == reply.value
            newest == SubSeq(project.commits, 1, 50)
        IN  /\ r.total_commits = Len(project.commits)
            /\ r.authors = AuthorsOf(newest)
            /\ r.commit_frequency
                  = [m \in {YearMonth(newest[i]) : i \in 1..50} |->
                        Cardinality({i \in 1..50 : YearMonth(newest[i]) = m})]
            /\ r.file_changes
                  = [f \in UNION {newest[i].files : i \in 1..50} |->
                        Cardinality({i \in 1..50 : f \in newest[i].files})]
            /\ Len(r.recent_commits) = 10
            /\ \A i \in 1..10 :
                  r.recent_commits[i].hash = SubSeq(project.commits[i].hexsha, 1, 8)

\* 51 commits, the newest of alice and 50 older ones of bob: alice is counted
\* nowhere and recent_commits starts at the second newest commit
C12_Witness ==
    /\ lastOp.op = "analyze_git_history"
    /\ project.state = "repo"
    /\ Len(project.commits) = 51
    /\ project.commits[1].author = <<"a","l","i","c","e">>
    /\ project.commits[2].author = <<"b","o","b">>
    /\ reply.value.total_commits = 51
    /\ DOMAIN reply.value.authors = {<<"b","o","b">>}
    /\ reply.value.authors[<<"b","o","b">>] = 50
    /\ reply.value.recent_commits[1].hash = SubSeq(project.commits[2].hexsha, 1, 8)

\* the project without its package.json
WithoutPackageJson ==
    SelectSeq(project, LAMBDA f : ~(f.dir = <<>> /\ f.name = <<"p","a","c","k","a","g","e",".","j","s","o","n">>))

\* package.json is there and read, and its text is no package manifest
PackageJsonMalformed ==
    /\ RootFiles(project, <<"p","a","c","k","a","g","e",".","j","s","o","n">>) # <<>>
    /\ RootFiles(project, <<"p","a","c","k","a","g","e",".","j","s","o","n">>)[1].fault = "none"
    /\ PackageOf = {}

\* C18: when package.json is malformed, analyze_dependencies does not raise;
\* node_deps is the marker {"error": "Invalid JSON"}, and total_deps and
\* python_deps are those of the other manifests.
\* The code does not satisfy this: only json.JSONDecodeError is caught, so a
\* package.json that is valid JSON of the wrong shape makes the call raise.
C18_MalformedManifestMarked ==
    (lastOp.op = "analyze_dependencies" /\ PackageJsonMalformed
     /\ AnalyzeDependencies(WithoutPackageJson).kind = "return") =>
        /\ reply.kind = "return"
        /\ reply.value.node_deps = [k \in {<<"e","r","r","o","r">>} |-> <<"I","n","v","a","l","i","d"," ","J","S","O","N">>]
        /\ reply.value.total_deps = AnalyzeDependencies(WithoutPackageJson).value.total_deps
        /\ reply.value.python_deps = AnalyzeDependencies(WithoutPackageJson).value.python_deps

\* package.json holds the JSON array [] beside a requirements.txt of one
\* entry: the call raises AttributeError
C18_Witness ==
    /\ lastOp.op = "analyze_dependencies"
    /\ Len(project) = 2
    /\ project[1].name = <<"r","e","q","u","i","r","e","m","e","n","t","s",".","t","x","t">>
    /\ project[1].content = <<"f","l","a","s","k","=","=","2",".","0","\n">>
    /\ project[2].name = <<"p","a","c","k","a","g","e",".","j","s","o","n">>
    /\ project[2].content = <<"[","]">>
    /\ reply = Raises("AttributeError")

\* the project without the files that cannot be read
ReadableFiles == SelectSeq(project, LAMBDA f : f.fault # "read")

\* C19: in each of the four analyzers that read files, a file that cannot be
\* read as UTF-8 text is skipped and does not end the scan: the analyzer
\* returns the result of the remaining files.
\* The code does not satisfy this: analyze_dependencies opens requirements.txt
\* in no try and catches only JSONDecodeError around package.json.
C19_UnreadableFileSkipped ==
    (lastOp.op \in ScannerNames /\ ReadableFiles # project
     /\ ScannerOutcome(lastOp.op, ReadableFiles).kind = "return") =>
        /\ reply.kind = "return"
        /\ reply = ScannerOutcome(lastOp.op, ReadableFiles)

\* requirements.txt cannot be read, a.py can: analyze_dependencies raises
C19_Witness ==
    /\ lastOp.op = "analyze_dependencies"
    /\ Len(project) = 2
    /\ project[1].name = <<"a",".","p","y">> /\ project[1].fault = "none"
    /\ project[2].name = <<"r","e","q","u","i","r","e","m","e","n","t","s",".","t","x","t">> /\ project[2].fault = "read"
    /\ reply.kind = "raise"

\* a keyword of the k-th answer category occurs in the lower-cased question
Holds(k) ==
    \E w \in ResponseCategories[k].words : Contains(w, Lower(question))

\* the category an answer belongs to, by its first part
AnswerCategory(answer) ==
    CASE answer[1].part \in {"database_found", "database_none"} -> "database"
      [] answer[1].part = "dependencies_header" -> "dependencies"
      [] answer[1].part \in {"security_ok", "security_header"} -> "security"
      [] answer[1].part = "metrics" -> "metrics"
      [] answer[1].part = "default_dump" -> "default"

\* C15: the fallback answer is the database answer when a database keyword
\* occurs in the question; else the dependencies answer when a dependencies
\* keyword occurs; else the security answer; else the metrics answer; and the
\* default dump when no keyword of any category occurs.
C15_FirstCategoryWins ==
    lastOp.op = "generate_basic_response" =>
        LET category == AnswerCategory(reply.value)
        IN  /\ Holds(1) => category = "database"
            /\ (~Holds(1) /\ Holds(2)) => category = "dependencies"
            /\ (~Holds(1) /\ ~Holds(2) /\ Holds(3)) => category = "security"
            /\ (~Holds(1) /\ ~Holds(2) /\ ~Holds(3) /\ Holds(4)) => category = "metrics"
            /\ (~Holds(1) /\ ~Holds(2) /\ ~Holds(3) /\ ~Holds(4)) => category = "default"

\* a question with a security and a dependencies keyword is answered as a
\* dependencies question
C15_Witness ==
    /\ lastOp.op = "generate_basic_response"
    /\ question = <<"u","n","s","a","f","e"," ","p","a","c","k","a","g","e","s">>
    /\ reply.value[1].part = "dependencies_header"

\* C16: in the metrics answer the size label is small below 1000 lines,
\* medium from 1000 to 9999, large from 10000; the complexity label is low
\* below 10, medium from 10 to 49, high from 50; each label depends on its own
\* number only.
C16_LabelsIndependent ==
    (lastOp.op = "generate_basic_response" /\ reply.value[1].part = "metrics") =>
        LET answer == reply.value[1]
            lines == answer.total_lines
            estimate == answer.complexity
        IN  /\ "analyze_code_metrics" \in DOMAIN lastOp.analysis_data
               /\ "total_lines" \in DOMAIN lastOp.analysis_data["analyze_code_metrics"]
               => /\ lines = lastOp.analysis_data["analyze_code_metrics"].total_lines
                  /\ estimate =
                        lastOp.analysis_data["analyze_code_metrics"].complexity_estimate
            /\ answer.size = "small" <=> lines < 1000
            /\ answer.size = "medium" <=> (1000 <= lines /\ lines < 10000)
            /\ answer.size = "large" <=> lines >= 10000
            /\ answer.complexity_label = "low" <=> estimate < 10
            /\ answer.complexity_label = "medium" <=> (10 <= estimate /\ estimate < 50)
            /\ answer.complexity_label = "high" <=> estimate >= 50

\* exactly 1000 lines with an estimate of 9: medium size, low complexity
C16_Witness ==
    /\ lastOp.op = "generate_basic_response"
    /\ reply.value[1].part = "metrics"
    /\ reply.value[1].total_lines = 1000
    /\ reply.value[1].complexity = 9
    /\ reply.value[1].size = "medium"
    /\ reply.value[1].complexity_label = "low"

\* the security result the answer was made from
SecurityInfo == Get(lastOp.analysis_data, "find_security_issues", EmptyDict)

\* C17: in the security category a result with zero issues gives the
\* reassurance message alone; a result with at least one issue gives the
\* header with the total, at most 5 issues, those the result lists first, and
\* at the end the remediation checklist.
C17_SecurityFormats ==
    (lastOp.op = "generate_basic_response"
     /\ reply.value[1].part \in {"security_ok", "security_header"}) =>
        LET answer == reply.value
            total == Get(SecurityInfo, "total_issues", 0)
            shown == {i \in 1..Len(answer) : answer[i].part = "issue"}
        IN  /\ total = 0 => answer = <<[part |-> "security_ok"]>>
            /\ total > 0 =>
                  /\ answer[1] = [part |-> "security_header", total_issues |-> total]
                  /\ Cardinality(shown) = Min(5, Len(SecurityInfo.issues))
                  /\ \A i \in shown : /\ i - 1 \in 1..5
                                      /\ answer[i].line = SecurityInfo.issues[i - 1].line
                  /\ answer[Len(answer)].part = "recommendations"
                  /\ \A i \in 1..Len(answer) : answer[i].part # "security_ok"

\* seven issues: five are listed, then the count of the others and the
\* checklist
C17_Witness ==
    /\ lastOp.op = "generate_basic_response"
    /\ Get(SecurityInfo, "total_issues", 0) = 7
    /\ Len(reply.value) = 8
    /\ reply.value[1].part = "security_header"
    /\ reply.value[6].part = "issue"
    /\ reply.value[7] = [part |-> "more_issues", n |-> 2]
    /\ reply.value[8].part = "recommendations"


-----------------------------------------------------------------------------
(* Properties of the AI service                                            *)

\* a credential is configured for the selected provider
CredentialConfigured ==
    \/ AI_SERVICE = "openai" /\ Truthy(OPENAI_API_KEY)
    \/ AI_SERVICE = "anthropic" /\ Truthy(ANTHROPIC_API_KEY)

\* C13: after any sequence of configure requests, an answer is made in AI mode
\* exactly when a credential is configured for the selected provider, and then
\* by one request to that provider; otherwise it is the fallback answer and no
\* request is made.
C13_ModeFollowsCredential ==
    lastOp.op = "generate_agent_response" =>
        IF CredentialConfigured
        THEN /\ Len(calls) = 1
             /\ calls[1].func = "requests.post"
             /\ calls[1].kwargs.provider = AI_SERVICE
        ELSE /\ calls = <<>>
             /\ reply = Returns(GenerateBasicResponse(question, analysis_data))

\* anthropic is selected with a key and no OpenAI key was ever given: the
\* answer is the fallback
C13_Witness ==
    /\ lastOp.op = "generate_agent_response"
    /\ AI_SERVICE = "anthropic"
    /\ Truthy(ANTHROPIC_API_KEY)
    /\ ~Truthy(OPENAI_API_KEY)
    /\ calls = <<>>
    /\ reply = Returns(GenerateBasicResponse(question, analysis_data))

-----------------------------------------------------------------------------
(* Properties of the agent endpoint                                        *)

\* the elements of a list
Elements(list) == {list[i] : i \in 1..Len(list)}

\* C20: a request to the agent with a project loaded and a question that is not
\* blank is answered with status 200 whatever analyzers fail: every selected
\* tool is run, the results have exactly one entry per selected tool, the error
\* record for a tool that raised and else the dict the tool returned, and the
\* response is a text that is not empty.
C20_FailuresDoNotStopTheRequest ==
    (/\ lastOp.op = "agent_analyze"
     /\ current_project_path # NoPath
     /\ Strip(lastOp.question) # <<>>) =>
        /\ reply.status = 200
        /\ reply.tools_used # <<>>
        /\ DOMAIN reply.results = Elements(reply.tools_used)
        /\ Len(calls) = Len(reply.tools_used)
        /\ \A i \in 1..Len(calls) : calls[i].func = reply.tools_used[i]
        /\ \A t \in DOMAIN reply.results :
              IF t \in lastOp.failing
              THEN reply.results[t] = [error |-> <<"failed", t>>]
              ELSE \E produced \in ProducedChoices : reply.results[t] = produced[t]
        /\ reply.response # <<>>
        /\ \A i \in 1..Len(reply.response) : "part" \in DOMAIN reply.response[i]

\* every selected tool failed, the first of two among them, and the answer is
\* the security answer of the fallback
C20_Witness ==
    /\ lastOp.op = "agent_analyze"
    /\ reply.status = 200
    /\ Len(reply.tools_used) = 2
    /\ \A t \in DOMAIN reply.results : DOMAIN reply.results[t] = {"error"}
    /\ Len(calls) = 2
    /\ calls[1].produced.kind = "raise"
    /\ reply.response = <<[part |-> "security_ok"]>>

\* a name beginning with '.' is on the path of f: its own, or the one of a
\* directory it lies under
Hidden(f) ==
    \/ StartsWith(f.name, <<".">>)
    \/ StartsWith(f.dir, <<".">>)
    \/ \E i \in 1..(Len(f.dir) - 1) : f.dir[i] = "/" /\ f.dir[i + 1] = "."

\* C22: analyze_code_metrics skips every name beginning with '.': a dot-file and
\* a file under a directory whose name begins with '.' contribute to none of
\* total_files, total_lines, file_types and largest_files, so these are the
\* ones of the project without such files.
\* The code does not satisfy this: only the names of files are tested, and a
\* file under a dot-directory is counted.
C22_DotNamesSkipped ==
    lastOp.op = "analyze_code_metrics" =>
        LET r == reply.value
            visible == AnalyzeCodeMetrics(SelectSeq(project, LAMBDA f : ~Hidden(f)))
        IN  /\ r.total_files = visible.total_files
            /\ r.total_lines = visible.total_lines
            /\ r.file_types = visible.file_types
            /\ r.largest_files = visible.largest_files

\* .github/ci.md is the only file of the project and it is counted
C22_Witness ==
    /\ lastOp.op = "analyze_code_metrics"
    /\ Len(project) = 1
    /\ project[1].dir = <<".","g","i","t","h","u","b">> /\ project[1].name = <<"c","i",".","m","d">>
    /\ reply.value.total_files = 1
    /\ reply.value.total_lines = 2
    /\ reply.value.largest_files[1].file = <<".","g","i","t","h","u","b","/","c","i",".","m","d">>

\* the files analyze_code_metrics counts in total_files, in traversal order
CountedFiles == SelectSeq(project, LAMBDA f : MetricsCandidate(f) /\ f.fault # "read")

\* the place of the file with the given relative path in the traversal
PlaceOf(path) == CHOOSE k \in 1..Len(project) : RelPath(project[k]) = path

\* C23: largest_files has length min(10, total_files), is sorted by lines in
\* descending order, holds no file with fewer lines than a counted file left
\* out of it, and keeps files of equal lines in their traversal order.
\* The code does not satisfy the length: a file that is counted but whose size
\* cannot be taken (C9) is in total_files and not in largest_files.
C23_LargestFilesTopTen ==
    lastOp.op = "analyze_code_metrics" =>
        LET r == reply.value
            largest == r.largest_files
            listed == {largest[i].file : i \in 1..Len(largest)}
        IN  /\ Len(largest) = Min(10, r.total_files)
            /\ \A i, j \in 1..Len(largest) :
                  i < j => /\ largest[i].lines >= largest[j].lines
                           /\ largest[i].lines = largest[j].lines =>
                                 PlaceOf(largest[i].file) < PlaceOf(largest[j].file)
            /\ \A k \in 1..Len(CountedFiles) :
                  RelPath(CountedFiles[k]) \notin listed =>
                     \A i \in 1..Len(largest) :
                        largest[i].lines >= Len(SplitLines(CountedFiles[k].content))

\* the one file of the project is read and gone when it is measured:
\* total_files is 1 and largest_files is empty
C23_Witness ==
    /\ lastOp.op = "analyze_code_metrics"
    /\ Len(project) = 1
    /\ project[1].fault = "stat"
    /\ reply.value.total_files = 1
    /\ reply.value.largest_files = <<>>

\* the text s holds the text code from the position at on
HoldsAt(s, at, code) ==
    at + Len(code) - 1 <= Len(s) /\ SubSeq(s, at, at + Len(code) - 1) = code

\* the positions of the line with the given 1-based number in the text s: those
\* after the newline that ends the line before it, up to its own newline
PositionsOfLine(s, number) ==
    {at \in 1..Len(s) : Cardinality({j \in 1..(at - 1) : s[j] = "\n"}) = number - 1}

\* C24: every issue of find_security_issues has severity high if and only if
\* its pattern is hardcoded_passwords or api_keys, and medium otherwise; its
\* line is the 1-based number of the line the match starts in, that is, the
\* matched code stands in the file from a position of that line on; the issues
\* of one pattern in one file come in the order of their lines.
C24_SeverityAndLine ==
    lastOp.op = "find_security_issues" =>
        LET issues == reply.value.issues
        IN  /\ \A i \in 1..Len(issues) :
                  /\ issues[i].severity \in {"high", "medium"}
                  /\ issues[i].severity = "high"
                        <=> issues[i].issue \in {"hardcoded_passwords", "api_keys"}
                  /\ \E k \in 1..Len(project) :
                        /\ RelPath(project[k]) = issues[i].file
                        /\ issues[i].line >= 1
                        /\ \E at \in PositionsOfLine(project[k].content, issues[i].line) :
                              HoldsAt(project[k].content, at, issues[i].code)
            /\ \A i, j \in 1..Len(issues) :
                  (/\ i < j
                   /\ issues[i].file = issues[j].file
                   /\ issues[i].issue = issues[j].issue)
                  => issues[i].line <= issues[j].line

\* the key of b.js is matched from its second line to its third: the issue has
\* line 2 and severity high; Math.random( ) in line 5 has severity medium
C24_Witness ==
    /\ lastOp.op = "find_security_issues"
    /\ \E i, j \in 1..Len(reply.value.issues) :
          /\ reply.value.issues[i] =
                [file |-> <<"b",".","j","s">>, line |-> 2, issue |-> "api_keys",
                 code |-> <<"A","P","I","_","K","E","Y"," ","=","\n"," ","'","k","'">>, severity |-> "high"]
          /\ reply.value.issues[j] =
                [file |-> <<"b",".","j","s">>, line |-> 5, issue |-> "weak_random",
                 code |-> <<"M","a","t","h",".","r","a","n","d","o","m","("," ",")">>, severity |-> "medium"]

\* the analyzer whose result the answer of a category reads
CategoryTool(category) ==
    CASE category = "database" -> "generate_architecture_summary"
      [] category = "dependencies" -> "analyze_dependencies"
      [] category = "security" -> "find_security_issues"
      [] category = "metrics" -> "analyze_code_metrics"

\* C25: in fallback mode the result the answer category of a question reads is
\* among the results of the tools the router selected for the question; a
\* database question about a project with database files is answered by the
\* list of these files.
\* The code does not satisfy this: the keyword lists of the router and of the
\* answer categories differ, and no router group holds a database keyword.
C25_AnswerReadsSelectedResult ==
    (lastOp.op = "agent_analyze" /\ reply.status = 200) =>
        LET category == CategoryOf(reply.question)
            architecture == lastOp.produced["generate_architecture_summary"]
        IN  /\ category # "default" => CategoryTool(category) \in DOMAIN reply.results
            /\ (/\ category = "database"
                /\ "generate_architecture_summary" \notin lastOp.failing
                /\ architecture.database_files # <<>>)
               => reply.response = <<[part |-> "database_found",
                                      files |-> architecture.database_files]>>

\* the database question of the tests on a project that holds app.db: the
\* default tools are run and the answer is that no database file was found
C25_Witness ==
    /\ lastOp.op = "agent_analyze"
    /\ reply.status = 200
    /\ reply.question = <<"i","s"," ","t","h","e","r","e"," ","a","n","y"," ","d","a","t","a","b","a","s","e"," ","b","e","i","n","g"," ","u","s","e","d"," ","i","n"," ","t","h","i","s"," ","p","r","o","j","e","c","t","?">>
    /\ lastOp.failing = {}
    /\ lastOp.produced["generate_architecture_summary"].database_files = <<<<"a","p","p",".","d","b">>>>
    /\ reply.tools_used = <<"analyze_code_metrics", "analyze_dependencies">>
    /\ reply.response = <<[part |-> "database_none"]>>

-----------------------------------------------------------------------------
(* Properties of the shared project state                                  *)

\* C26: a load-repo request that fails leaves current_project_path and
\* project_files as they were, so that the file tree served is always the one
\* of the directory current_project_path names.
\* The code does not satisfy this: current_project_path is assigned before the
\* directory is tested or the repository cloned.
C26_FailedLoadChangesNothing ==
    /\ [][(lastOp'.op = "clone_repo" /\ reply'.status # 200)
            => UNCHANGED <<current_project_path, project_files>>]_vars
    /\ [](\A i \in 1..Len(project_files) : project_files[i].root = current_project_path)

\* the tree of a project loaded before is served after a clone that failed,
\* while current_project_path names the directory made for the clone
C26_Witness ==
    /\ lastOp.op = "get_file_tree_api"
    /\ reply.file_tree = GetFileTree(LocalPath)
    /\ current_project_path = TempDir(1)

-----------------------------------------------------------------------------
(* Properties of the AI status                                             *)

\* the next answer would be made by a request to a provider
NextAnswerByProvider ==
    GenerateAgentResponse(question, analysis_data, "ok").invoked # <<>>

\* C27: after any sequence of configure requests, is_configured of the status
\* endpoint is true exactly when the next answer would be produced in AI mode
\* by a request to a provider, and false exactly when it would be the fallback
\* answer (a value is taken as true or false as Python's bool takes it).
\* The code does not satisfy this, because of the test of call_ai_service that
\* C13 is about.
C27_StatusAgreesWithMode ==
    lastOp.op = "ai_status" =>
        (reply.is_configured \notin {"False", "None", ""} <=> NextAnswerByProvider)

\* anthropic is selected with a key and no OpenAI key was given: the status
\* reports the key as is_configured, and the next answer is the fallback
C27_Witness ==
    /\ lastOp.op = "ai_status"
    /\ reply.service = "anthropic"
    /\ reply.is_configured = "sk-1"
    /\ ~reply.has_openai_key
    /\ ~NextAnswerByProvider

-----------------------------------------------------------------------------
(* Properties of the answer to a security question                         *)

\* the parts of an answer that are of the given kind
PartsOf(answer, kind) == SelectSeq(answer, LAMBDA p : p.part = kind)

\* C28: in the fallback answer that reports issues, the number of issues
\* listed plus the N of '... and N more issues' (0 without that line) is the
\* total the header announces, for every total, also above the cap of 20 of
\* the scanner.
\* The code does not satisfy this above 20: the header has total_issues, the
\* suffix is taken from the capped list.
C28_AnswerNumbersAgree ==
    (/\ lastOp.op = "agent_analyze"
     /\ reply.status = 200
     /\ PartsOf(reply.response, "security_header") # <<>>) =>
        LET header == PartsOf(reply.response, "security_header")[1]
            more == PartsOf(reply.response, "more_issues")
        IN  Len(PartsOf(reply.response, "issue"))
            + (IF more = <<>> THEN 0 ELSE more[1].n)
               = header.total_issues

\* a.py has 21 eval lines and 1 password line: 22 issues are announced, 5 are
\* listed and 15 more are spoken of
C28_Witness ==
    /\ lastOp.op = "agent_analyze"
    /\ reply.status = 200
    /\ reply.results["find_security_issues"].total_issues = 22
    /\ PartsOf(reply.response, "security_header")
          = <<[part |-> "security_header", total_issues |-> 22]>>
    /\ Len(PartsOf(reply.response, "issue")) = 5
    /\ PartsOf(reply.response, "more_issues") = <<[part |-> "more_issues", n |-> 15]>>

\* no load-repo request has succeeded: project_files is assigned by a load
\* that succeeds and by nothing else, and the tree of a loaded project has an
\* entry
NothingLoaded == project_files = <<>>

\* C29: POST /api/tools/execute runs the tool on the current project root
\* whatever parameters the caller gives, its own project_path among them: the
\* project_path of every call is current_project_path; with no project loaded
\* no tool is run.
\* The code does not satisfy the last part: after a load that failed (C26)
\* current_project_path is set and the tool is run on it.
C29_ToolRunsOnCurrentRoot ==
    lastOp.op = "http_execute_tool" =>
        /\ \A i \in 1..Len(calls) :
              /\ "project_path" \in DOMAIN calls[i].kwargs
              /\ calls[i].kwargs["project_path"] = current_project_path
        /\ NothingLoaded => (calls = <<>> /\ reply.status = 400)

\* no load has succeeded, the caller gives the path /etc, and the tool is run
\* on ./my_project
C29_Witness ==
    /\ lastOp.op = "http_execute_tool"
    /\ lastOp.kwargs = [k \in {"project_path"} |-> <<"/etc", 0>>]
    /\ NothingLoaded
    /\ Len(calls) = 1
    /\ calls[1].kwargs = [k \in {"project_path"} |-> LocalPath]
    /\ reply.status = 200

-----------------------------------------------------------------------------
(* Properties of the file endpoints                                        *)

\* the place at lies in the directory at the place root, or is that directory
Inside(at, root) == Len(root) <= Len(at) /\ SubSeq(at, 1, Len(root)) = root

\* the place the request for file_path names: file_path taken from the
\* current project directory
RequestedPlace(file_path) ==
    Resolve(OsPathJoin(PathText(current_project_path), file_path))

\* C30: the file-content endpoint serves a file only if it lies inside the
\* current project directory: a request whose path resolves outside of it is
\* refused with 403, access denied, and no content; the path of every file
\* entry of the file tree served is accepted and answered with the content of
\* that file.
\* The code does not satisfy this: the test is startswith on the joined text,
\* which '..' components pass, and the paths of the tree of ./my_project are
\* joined to the project directory a second time.
C30_ServesOnlyProjectFiles ==
    (/\ lastOp.op = "get_file_content"
     /\ lastOp.path # <<>>
     /\ current_project_path # NoPath) =>
        /\ ~Inside(RequestedPlace(lastOp.path), Resolve(PathText(current_project_path)))
              => (reply.status = 403 /\ "content" \notin DOMAIN reply)
        /\ reply.status = 200
              => Inside(RequestedPlace(lastOp.path),
                        Resolve(PathText(current_project_path)))
        /\ \A rel \in ProjectRels :
              (/\ project_files # <<>>
               /\ project_files[1].root = current_project_path
               /\ lastOp.path = TreeEntryPath(PathText(current_project_path), rel))
              => /\ reply.status = 200
                 /\ \E f \in FileSystem :
                       /\ f.at = Resolve(PathText(current_project_path) \o <<"/">> \o rel)
                       /\ reply.content = f.content

\* with ./my_project loaded, the path ../secret.txt is answered with the
\* content of a file of the directory above
C30_Witness ==
    /\ lastOp.op = "get_file_content"
    /\ current_project_path = LocalPath
    /\ lastOp.path = <<".",".","/","s","e","c","r","e","t",".","t","x","t">>
    /\ reply.status = 200
    /\ reply.content = <<"s","e","c","r","e","t">>

-----------------------------------------------------------------------------
(* Properties of requests served at the same time                          *)

\* C21: the project root is one shared value: each tool of an agent request
\* in progress is run on current_project_path as it is when the tool is run,
\* so a load-repo request served in between changes the root for the tools
\* not yet run, and one request can run its tools on two roots.
C21_ToolsSeeSharedRoot ==
    [][(pending.active /\ pending'.active /\ pending'.next = pending.next + 1)
          => /\ Len(pending'.invoked) = Len(pending.invoked) + 1
             /\ pending'.invoked[Len(pending'.invoked)].kwargs["project_path"]
                   = current_project_path]_vars

\* a request that began on ./my_project ran its first tool there and its
\* second tool on the directory of a clone made in between
C21_Witness ==
    /\ lastOp.op = "agent_analyze_end"
    /\ lastOp.started_on = LocalPath
    /\ reply.status = 200
    /\ Len(calls) = 3
    /\ calls[1].kwargs["project_path"] = LocalPath
    /\ calls[2].kwargs["project_path"] = TempDir(1)
    /\ calls[3].kwargs["project_path"] = TempDir(1)

=============================================================================
